---- MODULE Spec2Model ----
(***************************************************************************)
(* Verification model of ugo-os: the interrupt-safe spinlock of the        *)
(* kernel (kernel/src/sync.rs), the boot frame allocator                   *)
(* (bootloader/src/frame.rs), the page-table editor                        *)
(* (common/src/page.rs, bootloader/src/mappings.rs), the boot memory       *)
(* regions (bootloader/src/boot_info.rs) and the kernel's view of the page *)
(* tables and of physical memory (kernel/src/kmem), the kernel heap         *)
(* (kernel/src/kmem/ll_heap), the PICs and the IDT                         *)
(* (kernel/src/arch/interrupts) and virtual addresses (addr.rs).           *)
(***************************************************************************)
EXTENDS Integers, Sequences, FiniteSets, TLC

VARIABLES
    \* ---- kernel: interrupt flag, spinlocks, the interrupted code and the handler
    iflag,      \* RFLAGS.IF of the single CPU
    mutex,      \* inner spin::Mutex of each singleton: "free" or the holder
    todo,       \* per context: the operations still to execute
    pc,         \* per context: position inside the current lock()/drop()
    guards,     \* per context: stack of live NoInterruptMutexGuard values
    local,      \* per context: locals (was_enabled of lock() and of
                \* with_interrupts_disabled; history: IF when lock() was called)
    frame_if,   \* IF bit of the flags saved in the ExceptionFrame
    isr,        \* IRQ in service at the PIC (cleared by EOI)
    dropped,    \* history: the last guard whose drop completed
    \* ---- memory management of the bootloader and of the kernel
    memory_map, \* the UEFI memory map: a sequence of descriptors
    allocator,  \* FrameAllocator: alloc_start, alloc_end, next_frame
    level_4,    \* frame of the PML4 (Mappings.level_4_phys_addr, later CR3)
    mem,        \* physical memory read as page tables: frame -> table
    defined,    \* frames whose content is determined (written or read)
    phys,       \* kernel PhysFrameAllocator: bitmap, range, allocated
    phase,      \* "boot" until the handoff, then "kernel"
    panic,      \* "none" or the message of the panic that stopped the code
    nops,       \* number of mapping operations performed
    returned,   \* history: frames returned by FrameAllocator::alloc_frame
    cleared,    \* history: frames cleared by PageTable::alloc_new
    mapped,     \* history: per page, the last map_page(frame, page, flags)
    last,       \* history: the last operation, its arguments and pre-state
    bytes,      \* physical memory read as data: frame -> content of its parts
    boot,       \* the bootloader's run: ELF headers, position, results
    \* ---- kernel heap, interrupt controller, interrupt table, addresses
    heap,       \* KernelHeap: window, free_head, the headers in its memory
    pic,        \* the two 8259 PICs: registers and the port writes so far
    idt,        \* the IDT: its entries and the IDTR
    probe       \* the argument and the result of the last address call

syncVars == <<iflag, mutex, todo, pc, guards, local, frame_if, isr, dropped>>

memVars == <<memory_map, allocator, level_4, mem, defined, phys, phase,
             panic, nops, returned, cleared, mapped, last, bytes, boot>>

devVars == <<heap, pic, idt, probe>>

vars == <<syncVars, memVars, devVars>>

\* The memory-management state while the spinlock model runs.
MemIdle ==
    /\ memory_map = <<>>
    /\ allocator = [alloc_start |-> 0, alloc_end |-> 0, next_frame |-> 0]
    /\ level_4 = -1
    /\ mem = <<>>
    /\ defined = {}
    /\ phys = [bitmap |-> <<>>, range_end |-> 0, allocated |-> 0]
    /\ phase = "off"
    /\ panic = "none"
    /\ nops = 0
    /\ returned = <<>>
    /\ cleared = {}
    /\ mapped = <<>>
    /\ last = [op |-> "none"]
    /\ bytes = <<>>
    /\ boot = <<>>

\* The heap, the PICs, the IDT and the address probe while another model
\* runs.
DevIdle ==
    /\ heap = <<>>
    /\ pic = <<>>
    /\ idt = <<>>
    /\ probe = <<>>

(***************************************************************************)
(* Interrupt-safe spinlock and interrupt handlers                          *)
(***************************************************************************)

\* The singletons behind an InterruptSafeSpinlock.
Locks == {"PIC", "IDT", "TEXT_FB"}

\* "main" is the kernel code an interrupt can arrive in, "irq" the handler.
Contexts == {"main", "irq"}

Op(o, l) == [op |-> o, lock |-> l]
LockOp(l) == Op("lock", l)
UseOp == Op("use", "-")
DropOp == Op("drop", "-")

\* kprintln!: { let mut text_fb = TEXT_FB.lock(); writeln!(text_fb, ..) }
kprintln == <<LockOp("TEXT_FB"), UseOp, DropOp>>

\* initialize_idt: IDT.lock().div_zero = entry; IDT.lock().activate();
initialize_idt == <<LockOp("IDT"), UseOp, DropOp, LockOp("IDT"), UseOp, DropOp>>

\* add_user_defined_handler: IDT.lock().user_defined[i] = new_entry;
add_user_defined_handler == <<LockOp("IDT"), UseOp, DropOp>>

\* initialize_pic: PIC.lock().initialize(); let pic = PIC.lock(); ... two
\* add_user_defined_handler calls while pic is held; pic dropped at the end.
initialize_pic ==
    <<LockOp("PIC"), UseOp, DropOp, LockOp("PIC"), UseOp>>
        \o add_user_defined_handler \o add_user_defined_handler \o <<DropOp>>

\* with_interrupts_disabled(f), with a closure that prints.
with_interrupts_disabled == <<Op("wid_enter", "-")>> \o kprintln \o <<Op("wid_exit", "-")>>

\* timer_handler: PIC.lock().signal_eoi(TIMER_INTERRUPT);
timer_handler == <<LockOp("PIC"), Op("eoi", "-"), DropOp, Op("iret", "-")>>

\* keyboard_handler: kprintln!(..); PIC.lock().signal_eoi(KEYBOARD_INTERRUPT);
keyboard_handler == kprintln \o timer_handler

Handlers == [timer |-> timer_handler, keyboard |-> keyboard_handler]

\* What the kernel's straight-line code may run next.
KernelOps ==
    {kprintln, initialize_idt, initialize_pic, with_interrupts_disabled,
     <<Op("sti", "-")>>}

\* NoInterruptMutexGuard::drop: the decision to re-enable interrupts.
ShouldEnableOnDrop_Always(g) == TRUE

ShouldEnableOnDrop(g) == g.interrupts_enabled_on_enter

\* The context the CPU is executing: the handler runs to completion first.
Running == IF todo["irq"] # <<>> THEN "irq" ELSE "main"

Head1(t) == Head(todo[t])

NoDrop == [ctx |-> "-", lock |-> "-", pre |-> FALSE, after |-> FALSE]

\* The spinlock state before the kernel runs.
SyncIdle ==
    /\ iflag = FALSE
    /\ mutex = [l \in Locks |-> "free"]
    /\ todo = [t \in Contexts |-> <<>>]
    /\ pc = [t \in Contexts |-> "call"]
    /\ guards = [t \in Contexts |-> <<>>]
    /\ local = [t \in Contexts |->
            [was_enabled |-> FALSE, wid_was |-> FALSE, if_at_call |-> FALSE]]
    /\ frame_if = FALSE
    /\ isr = "none"
    /\ dropped = NoDrop

InitSync == SyncIdle /\ MemIdle /\ DevIdle

\* The kernel's code starts its next operation.
MainPick ==
    /\ todo["irq"] = <<>> /\ todo["main"] = <<>>
    /\ \E o \in KernelOps : todo' = [todo EXCEPT !["main"] = o]
    /\ UNCHANGED <<iflag, mutex, pc, guards, local, frame_if, isr, dropped>>
    /\ UNCHANGED <<memVars, devVars>>

\* Hardware: an unmasked IRQ is delivered through an interrupt gate, which
\* saves RFLAGS in the exception frame and clears IF.
Interrupt ==
    /\ iflag /\ todo["irq"] = <<>> /\ isr = "none"
    /\ \E k \in DOMAIN Handlers :
        /\ todo' = [todo EXCEPT !["irq"] = Handlers[k]]
        /\ isr' = k
    /\ frame_if' = iflag
    /\ iflag' = FALSE
    /\ UNCHANGED <<mutex, pc, guards, local, dropped>>
    /\ UNCHANGED <<memVars, devVars>>

\* lock(): let was_enabled = are_interrupts_enabled();
LockRead ==
    LET t == Running IN
    /\ todo[t] # <<>> /\ Head1(t).op = "lock" /\ pc[t] = "call"
    /\ local' = [local EXCEPT ![t].was_enabled = iflag, ![t].if_at_call = iflag]
    /\ pc' = [pc EXCEPT ![t] = "cli"]
    /\ UNCHANGED <<iflag, mutex, todo, guards, frame_if, isr, dropped>>
    /\ UNCHANGED <<memVars, devVars>>

\* lock(): if was_enabled { disable_interrupts(); }
LockCli ==
    LET t == Running IN
    /\ todo[t] # <<>> /\ Head1(t).op = "lock" /\ pc[t] = "cli"
    /\ iflag' = IF local[t].was_enabled THEN FALSE ELSE iflag
    /\ pc' = [pc EXCEPT ![t] = "acquire"]
    /\ UNCHANGED <<mutex, todo, guards, local, frame_if, isr, dropped>>
    /\ UNCHANGED <<memVars, devVars>>

\* lock(): guard: self.0.lock() -- spins until the mutex is free.
LockAcquire ==
    LET t == Running
        l == Head1(t).lock IN
    /\ todo[t] # <<>> /\ Head1(t).op = "lock" /\ pc[t] = "acquire"
    /\ mutex[l] = "free"
    /\ mutex' = [mutex EXCEPT ![l] = t]
    /\ guards' = [guards EXCEPT ![t] = Append(@,
            [lock |-> l, interrupts_enabled_on_enter |-> local[t].was_enabled,
             if_at_call |-> local[t].if_at_call])]
    /\ todo' = [todo EXCEPT ![t] = Tail(@)]
    /\ pc' = [pc EXCEPT ![t] = "call"]
    /\ UNCHANGED <<iflag, local, frame_if, isr, dropped>>
    /\ UNCHANGED <<memVars, devVars>>

\* Deref of the guard: the protected value is used.
Use ==
    LET t == Running IN
    /\ todo[t] # <<>> /\ Head1(t).op = "use"
    /\ todo' = [todo EXCEPT ![t] = Tail(@)]
    /\ UNCHANGED <<iflag, mutex, pc, guards, local, frame_if, isr, dropped>>
    /\ UNCHANGED <<memVars, devVars>>

\* Drop of the guard, first half: <NoInterruptMutexGuard as Drop>::drop runs.
DropSti ==
    LET t == Running
        g == guards[t][Len(guards[t])] IN
    /\ todo[t] # <<>> /\ Head1(t).op = "drop" /\ pc[t] = "call"
    /\ iflag' = IF ShouldEnableOnDrop(g) THEN TRUE ELSE iflag
    /\ pc' = [pc EXCEPT ![t] = "unlock"]
    /\ UNCHANGED <<mutex, todo, guards, local, frame_if, isr, dropped>>
    /\ UNCHANGED <<memVars, devVars>>

\* Drop of the guard, second half: the fields are dropped after drop() has
\* returned, and the inner MutexGuard releases the mutex.
DropUnlock ==
    LET t == Running
        n == Len(guards[t])
        g == guards[t][n] IN
    /\ todo[t] # <<>> /\ Head1(t).op = "drop" /\ pc[t] = "unlock"
    /\ mutex' = [mutex EXCEPT ![g.lock] = "free"]
    /\ guards' = [guards EXCEPT ![t] = SubSeq(@, 1, n - 1)]
    /\ todo' = [todo EXCEPT ![t] = Tail(@)]
    /\ pc' = [pc EXCEPT ![t] = "call"]
    /\ dropped' = [ctx |-> t, lock |-> g.lock,
                   pre |-> g.if_at_call, after |-> iflag]
    /\ UNCHANGED <<iflag, local, frame_if, isr>>
    /\ UNCHANGED <<memVars, devVars>>

\* enable_interrupts() called by the kernel's code.
Sti ==
    /\ Running = "main" /\ todo["main"] # <<>> /\ Head1("main").op = "sti"
    /\ iflag' = TRUE
    /\ todo' = [todo EXCEPT !["main"] = Tail(@)]
    /\ UNCHANGED <<mutex, pc, guards, local, frame_if, isr, dropped>>
    /\ UNCHANGED <<memVars, devVars>>

\* with_interrupts_disabled: let was_enabled = are_interrupts_enabled();
WidRead ==
    LET t == Running IN
    /\ todo[t] # <<>> /\ Head1(t).op = "wid_enter" /\ pc[t] = "call"
    /\ local' = [local EXCEPT ![t].wid_was = iflag]
    /\ pc' = [pc EXCEPT ![t] = "cli"]
    /\ UNCHANGED <<iflag, mutex, todo, guards, frame_if, isr, dropped>>
    /\ UNCHANGED <<memVars, devVars>>

\* with_interrupts_disabled: if was_enabled { disable_interrupts(); }
WidCli ==
    LET t == Running IN
    /\ todo[t] # <<>> /\ Head1(t).op = "wid_enter" /\ pc[t] = "cli"
    /\ iflag' = IF local[t].wid_was THEN FALSE ELSE iflag
    /\ pc' = [pc EXCEPT ![t] = "call"]
    /\ todo' = [todo EXCEPT ![t] = Tail(@)]
    /\ UNCHANGED <<mutex, guards, local, frame_if, isr, dropped>>
    /\ UNCHANGED <<memVars, devVars>>

\* with_interrupts_disabled: if was_enabled { enable_interrupts(); }
WidExit ==
    LET t == Running IN
    /\ todo[t] # <<>> /\ Head1(t).op = "wid_exit"
    /\ iflag' = IF local[t].wid_was THEN TRUE ELSE iflag
    /\ todo' = [todo EXCEPT ![t] = Tail(@)]
    /\ UNCHANGED <<mutex, pc, guards, local, frame_if, isr, dropped>>
    /\ UNCHANGED <<memVars, devVars>>

\* CascadedPics::signal_eoi: the PIC may deliver the next IRQ.
SignalEoi ==
    /\ todo["irq"] # <<>> /\ Head1("irq").op = "eoi"
    /\ isr' = "none"
    /\ todo' = [todo EXCEPT !["irq"] = Tail(@)]
    /\ UNCHANGED <<iflag, mutex, pc, guards, local, frame_if, dropped>>
    /\ UNCHANGED <<memVars, devVars>>

\* The handler returns: iretq restores RFLAGS from the exception frame.
Iret ==
    /\ todo["irq"] # <<>> /\ Head1("irq").op = "iret"
    /\ iflag' = frame_if
    /\ todo' = [todo EXCEPT !["irq"] = Tail(@)]
    /\ UNCHANGED <<mutex, pc, guards, local, frame_if, isr, dropped>>
    /\ UNCHANGED <<memVars, devVars>>

\* The steps of the interrupt handler.
IrqStep ==
    /\ todo["irq"] # <<>>
    /\ (LockRead \/ LockCli \/ LockAcquire \/ Use \/ DropSti \/ DropUnlock
            \/ SignalEoi \/ Iret)

NextSync ==
    \/ MainPick
    \/ Interrupt
    \/ LockRead
    \/ LockCli
    \/ LockAcquire
    \/ Use
    \/ DropSti
    \/ DropUnlock
    \/ Sti
    \/ WidRead
    \/ WidCli
    \/ WidExit
    \/ SignalEoi
    \/ Iret

SpecSync == InitSync /\ [][NextSync]_vars

\* The CPU keeps executing the handler's instructions.
FairSync == SpecSync /\ WF_vars(IrqStep)

(***************************************************************************)
(* Addresses, pages and page ranges                                        *)
(*                                                                         *)
(* Frames and pages are numbered: frame n has base address n * PAGE_SIZE,  *)
(* page n is the n-th page of the 48-bit virtual address space.  A page    *)
(* table has NumEntries entries instead of 512, so that a 1 GiB huge page  *)
(* spans NumEntries^2 pages and the whole address space can be explored.   *)
(***************************************************************************)

\* Entries per page table (512 in the source).
NumEntries == 3

PAGE_SIZE == 4096

\* Pages spanned by one PDPT entry (1 GiB / PAGE_SIZE).
HUGE_PAGE_SIZE_PAGES == NumEntries * NumEntries

\* Frames reserved for the boot frame allocator (min_frames).
MinFrames == 6

\* Operations performed in one run (Mappings::new and the handoff apart).
MaxOps == 2

\* Physical memory: two huge pages' worth of frames.
NumFrames == 2 * HUGE_PAGE_SIZE_PAGES
Frames == 0 .. NumFrames - 1

NumPages == NumEntries * NumEntries * NumEntries * NumEntries
Pages == 0 .. NumPages - 1

\* First page of the direct map of physical memory: PHYSMEM_START is
\* KMEM_START, the first address of the upper half (PML4 index 256 of 512).
PHYSMEM_START == (NumEntries \div 2) * NumEntries * NumEntries * NumEntries

\* addr & !(align - 1), for the power-of-two alignments the code uses.
align_down(addr, align) == addr - (addr % align)

\* PhysFrame::as_direct_mapped: the page of the direct map that shows a frame.
as_direct_mapped(frame) == PHYSMEM_START + frame

\* VirtAddr::get_page_map_l4_idx and the three lower-level indices.
get_page_map_l4_idx(page) ==
    (page \div (NumEntries * NumEntries * NumEntries)) % NumEntries
get_page_dir_ptr_idx(page) == (page \div (NumEntries * NumEntries)) % NumEntries
get_page_dir_idx(page) == (page \div NumEntries) % NumEntries
get_page_table_idx(page) == page % NumEntries

\* PageRange: inclusive start, exclusive end.
PageRange(start, end) == [start |-> start, end |-> end]
range_length(start, n) == PageRange(start, start + n)
RangeLen(r) == r.end - r.start
RangeSet(r) == {p \in r.start .. r.end - 1 : TRUE}
NoRange == PageRange(0, 0)

(***************************************************************************)
(* Boot frame allocator (bootloader/src/frame.rs)                          *)
(*                                                                         *)
(* The operations are functions on a record s holding the memory-          *)
(* management state; a panic is recorded in s.panic and stops everything   *)
(* that follows.                                                           *)
(***************************************************************************)

NoPanic == "none"
Panic(s, msg) == [s EXCEPT !.panic = msg]

Descriptor(ty, start, count) ==
    [ty |-> ty, phys_start |-> start, page_count |-> count]

\* FrameAllocator::new: the first CONVENTIONAL descriptor that is big enough.
FrameAllocator_new(map, min_frames) ==
    LET fits == {i \in 1 .. Len(map) :
                    map[i].ty = "CONVENTIONAL" /\ map[i].page_count >= min_frames}
        MinOf(S) == CHOOSE i \in S : \A j \in S : i <= j
        first_free == map[MinOf(fits)]
    IN [alloc_start |-> first_free.phys_start,
        alloc_end |-> first_free.phys_start + min_frames,
        next_frame |-> first_free.phys_start]

\* alloc_frame with the bound test off by one.
alloc_frame_PastEnd(s) ==
    IF s.panic # NoPanic THEN s
    ELSE IF s.alloc.next_frame * PAGE_SIZE > s.alloc.alloc_end * PAGE_SIZE
    THEN Panic(s, "Used all reserved boot physical memory!")
    ELSE [s EXCEPT !.ret = s.alloc.next_frame,
                   !.alloc.next_frame = @ + 1,
                   !.returned = Append(@, s.alloc.next_frame)]

\* FrameAllocator::alloc_frame
alloc_frame(s) ==
    IF s.panic # NoPanic THEN s
    ELSE IF s.alloc.next_frame * PAGE_SIZE >= s.alloc.alloc_end * PAGE_SIZE
    THEN Panic(s, "Used all reserved boot physical memory!")
    ELSE [s EXCEPT !.ret = s.alloc.next_frame,
                   !.alloc.next_frame = @ + 1,
                   !.returned = Append(@, s.alloc.next_frame)]

\* for _ in 0..len { self.alloc_frame(); }
RECURSIVE alloc_frames(_, _)
alloc_frames(s, len) ==
    IF len = 0 THEN s ELSE alloc_frames(alloc_frame(s), len - 1)

\* The end of alloc_frame_range.  range.last() is end.decrement(1): for an
\* end at frame 0 the subtraction leaves the u64 range, which panics either
\* in the subtraction (overflow checks) or in PhysAddr::new (wrapped value
\* with upper bits set).
alloc_frame_range_check(a, range) ==
    IF a.panic # NoPanic THEN a
    ELSE IF range.end * PAGE_SIZE < PAGE_SIZE
    THEN Panic(a, "PageRange::last: no frame below frame 0")
    ELSE IF a.alloc.next_frame # (range.end - 1) + 1
    THEN Panic(a, "assertion failed: next_frame == range.last().next()")
    ELSE [a EXCEPT !.range = range]

\* FrameAllocator::alloc_frame_range
alloc_frame_range(s, len) ==
    IF s.panic # NoPanic THEN s
    ELSE alloc_frame_range_check(alloc_frames(s, len),
                                 range_length(s.alloc.next_frame, len))

(***************************************************************************)
(* u64 addresses.  The low VIRTADDR_SIZE bits of an address span the       *)
(* NumPages pages; the bits above them are scaled to one binary digit, so  *)
(* that a u64 is a number below U64 and an address is canonical when that  *)
(* digit repeats the top bit of the low part.                              *)
(***************************************************************************)

VirtSpan == NumPages * PAGE_SIZE
U64 == 2 * VirtSpan
u64(x) == (x + U64) % U64

\* common/src/lib.rs: the layout of the kernel half of the address space.
KMEM_START == VirtSpan + PHYSMEM_START * PAGE_SIZE
PHYSMEM_MAX == ((NumPages - PHYSMEM_START) \div 2) * PAGE_SIZE
BOOTINFO_START == KMEM_START + PHYSMEM_MAX
BOOTINFO_SIZE == HUGE_PAGE_SIZE_PAGES * PAGE_SIZE
KERNEL_START == BOOTINFO_START + BOOTINFO_SIZE

KERNEL_STACK_PAGES == 3

\* VirtAddr::new accepts the addresses in canonical form.
Canonical(addr) ==
    addr \div VirtSpan =
        (IF (addr % VirtSpan) \div PAGE_SIZE >= PHYSMEM_START THEN 1 ELSE 0)

\* Page::from_containing_u64 and Page::base_u64 for pages and frames.
VirtPage_from_containing_u64(addr) == (addr % VirtSpan) \div PAGE_SIZE
VirtPage_base_u64(page) ==
    (IF page >= PHYSMEM_START THEN VirtSpan ELSE 0) + page * PAGE_SIZE
PhysFrame_from_containing_u64(addr) == addr \div PAGE_SIZE
PhysFrame_base_u64(frame) == frame * PAGE_SIZE

\* is_valid_kernel_addr
is_valid_kernel_addr(addr) == addr >= KERNEL_START

\* The result of a computation that can panic.
Fine(v) == [panic |-> NoPanic, value |-> v]
Fail(msg) == [panic |-> msg, value |-> 0]

\* Page::next for a page: increment(1) adds PAGE_SIZE to the base address
\* (an overflow panics with overflow checks and wraps without them) and
\* VirtAddr::new checks the sum.
VirtPage_next(page, checks) ==
    IF VirtPage_base_u64(page) + PAGE_SIZE >= U64 /\ checks
    THEN Fail("attempt to add with overflow")
    ELSE IF ~Canonical(u64(VirtPage_base_u64(page) + PAGE_SIZE))
    THEN Fail("not a canonical virtual address")
    ELSE Fine(VirtPage_from_containing_u64(
                u64(VirtPage_base_u64(page) + PAGE_SIZE)))

\* PageRange::new(start, end.next()) for the page after `end`.
VirtPage_range_to(start, next) ==
    IF next.panic # NoPanic THEN next ELSE Fine(PageRange(start, next.value))

\* VirtPage::range_inclusive_u64(start, end)
VirtPage_range_inclusive_u64(start, end, checks) ==
    IF ~Canonical(start) \/ ~Canonical(end)
    THEN Fail("not a canonical virtual address")
    ELSE VirtPage_range_to(
            VirtPage_from_containing_u64(start),
            VirtPage_next(VirtPage_from_containing_u64(end), checks))

\* PhysFrame::range_inclusive_u64(start, end)
PhysFrame_range_inclusive_u64(start, end) ==
    PageRange(PhysFrame_from_containing_u64(start),
              PhysFrame_from_containing_u64(end) + 1)

\* virtual_addr + size - 1 leaves the u64 range.
EndOverflows(virtual_addr, size) ==
    virtual_addr + size >= U64 \/ u64(virtual_addr + size) < 1


(***************************************************************************)
(* The frame bitmap of the kernel (kernel/src/kmem/phys.rs)                *)
(*                                                                         *)
(* The map is the byte slice: a function from byte indexes to bytes.       *)
(***************************************************************************)

\* PhysFrame::idx: the number of the frame.
PhysFrame_idx(frame) == frame

\* frame.idx() / 8 and frame.idx() % 8
byte_idx(frame) == PhysFrame_idx(frame) \div 8
bit_idx(frame) == PhysFrame_idx(frame) % 8

\* byte >> 7 - bit_idx, then & 1
shifted_bit(byte, frame) == (byte \div (2 ^ (7 - bit_idx(frame)))) % 2

\* Bitmap::read: TRUE for FrameStatus::Allocated
Bitmap_read(map, frame) == shifted_bit(map[byte_idx(frame)], frame) # 0

\* byte | mask and byte & !mask for a mask of one bit
byte_or(byte, mask) ==
    IF (byte \div mask) % 2 = 1 THEN byte ELSE byte + mask
byte_and_not(byte, mask) ==
    IF (byte \div mask) % 2 = 1 THEN byte - mask ELSE byte

\* Bitmap::write with the mask 1 << bit_idx
Bitmap_write_LowBitFirst(map, frame, allocated) ==
    [map EXCEPT ![byte_idx(frame)] =
        IF allocated THEN byte_or(@, 2 ^ bit_idx(frame))
        ELSE byte_and_not(@, 2 ^ bit_idx(frame))]

\* Bitmap::write
Bitmap_write(map, frame, allocated) ==
    [map EXCEPT ![byte_idx(frame)] =
        IF allocated THEN byte_or(@, 2 ^ (7 - bit_idx(frame)))
        ELSE byte_and_not(@, 2 ^ (7 - bit_idx(frame)))]

\* for f in range.iter() { bitmap.write(f, FrameStatus::Allocated) }
RECURSIVE write_allocated(_, _, _)
write_allocated(map, frame, end) ==
    IF frame >= end THEN map
    ELSE write_allocated(Bitmap_write(map, frame, TRUE), frame + 1, end)

\* alloc_frame, lines 150-157: the first frame of the range read as Free;
\* the end of the range if there is none.
RECURSIVE first_free_frame(_, _, _)
first_free_frame(map, frame, end) ==
    IF frame >= end THEN end
    ELSE IF ~Bitmap_read(map, frame) THEN frame
    ELSE first_free_frame(map, frame + 1, end)

(***************************************************************************)
(* Page tables (common/src/page.rs)                                        *)
(***************************************************************************)

\* PageTableEntry: the bits the code reads and writes.
ZeroEntry ==
    [present |-> FALSE, write |-> FALSE, page_size |-> FALSE,
     no_exec |-> FALSE, addr |-> 0]

set_present(e, b) == [e EXCEPT !.present = b]
set_write(e, b) == [e EXCEPT !.write = b]
set_no_exec(e, b) == [e EXCEPT !.no_exec = b]
set_page_size(e, b) == [e EXCEPT !.page_size = b]
\* set_addr stores the address aligned down to the page boundary.
set_addr(e, addr) == [e EXCEPT !.addr = align_down(addr, PAGE_SIZE)]

EntryIdx == 0 .. NumEntries - 1

\* PageTable::clear
ZeroTable == [i \in EntryIdx |-> ZeroEntry]

\* Memory the program has not written holds anything.  What a read of such
\* a frame finds is chosen by the operation that reads it: nothing, or
\* entries that look present and point at some frame.
JunkEntry(f) ==
    [present |-> TRUE, write |-> TRUE, page_size |-> FALSE,
     no_exec |-> FALSE, addr |-> f * PAGE_SIZE]
JunkTables == {ZeroTable} \cup {[i \in EntryIdx |-> JunkEntry(f)] : f \in Frames}

\* PageTable::from_frame: the frame is used as a table from now on.
from_frame(s, frame) ==
    IF frame \in s.defined THEN s
    ELSE [s EXCEPT !.mem[frame] = s.junk, !.defined = @ \cup {frame}]

\* Reading a table without changing the state (for walks in properties).
ReadTable(s, frame) == IF frame \in s.defined THEN s.mem[frame] ELSE s.junk

\* PhysFrameAllocator::alloc_frame that finds no free frame and still
\* counts one.
phys_alloc_frame_CountsNone(s, f) ==
    IF f >= s.phys.range_end
    THEN [s EXCEPT !.some = FALSE, !.phys.allocated = @ + 1]
    ELSE [s EXCEPT !.some = TRUE, !.ret = f,
                   !.phys.bitmap = Bitmap_write(@, f, TRUE),
                   !.phys.allocated = @ + 1]

\* PhysFrameAllocator::alloc_frame with f the first free frame.
phys_alloc_frame_found(s, f) ==
    IF f >= s.phys.range_end THEN [s EXCEPT !.some = FALSE]
    ELSE [s EXCEPT !.some = TRUE, !.ret = f,
                   !.phys.bitmap = Bitmap_write(@, f, TRUE),
                   !.phys.allocated = @ + 1]

\* PhysFrameAllocator::alloc_frame
phys_alloc_frame(s) ==
    IF s.panic # NoPanic THEN s
    ELSE phys_alloc_frame_found(
            s, first_free_frame(s.phys.bitmap, 0, s.phys.range_end))

\* free_frame leaving the counter as it is.
phys_free_frame_KeepsCount(s, frame) ==
    IF s.panic # NoPanic THEN s
    ELSE IF byte_idx(frame) \notin DOMAIN s.phys.bitmap
    THEN Panic(s, "index out of bounds")
    ELSE [s EXCEPT !.phys.bitmap = Bitmap_write(@, frame, FALSE)]

\* PhysFrameAllocator::free_frame
phys_free_frame(s, frame) ==
    IF s.panic # NoPanic THEN s
    ELSE IF byte_idx(frame) \notin DOMAIN s.phys.bitmap
    THEN Panic(s, "index out of bounds")
    ELSE IF s.phys.allocated = 0 /\ s.checks
    THEN Panic([s EXCEPT !.phys.bitmap = Bitmap_write(@, frame, FALSE)],
               "attempt to subtract with overflow")
    ELSE [s EXCEPT !.phys.bitmap = Bitmap_write(@, frame, FALSE),
                   !.phys.allocated = u64(@ - 1)]

\* A page table needs its frame: no frame is fatal.
expect_frame(a) ==
    IF a.panic = NoPanic /\ ~a.some
    THEN Panic(a, "out of physical frames for a page table")
    ELSE a

\* PageMapAllocator::alloc for the two allocators: the boot allocator hands
\* out its next frame, the kernel allocator a free frame of its bitmap.
PageMapAllocator_alloc(s, A) ==
    IF A = "FrameAllocator" THEN alloc_frame(s)
    ELSE expect_frame(phys_alloc_frame(s))

\* table.clear() of alloc_new, on the frame s.ret.
clear(a) ==
    IF a.panic # NoPanic THEN a
    ELSE [a EXCEPT !.mem[a.ret] = ZeroTable,
                   !.defined = @ \cup {a.ret},
                   !.cleared = @ \cup {a.ret}]

\* PageTable::alloc_new: a frame from the allocator, cleared.
alloc_new(s, A) == clear(PageMapAllocator_alloc(s, A))

\* get_mut_or_insert, absent entry: the new table a.ret is linked.
insert_entry(a, table, idx) ==
    IF a.panic # NoPanic THEN a
    ELSE [a EXCEPT !.mem[table][idx] =
            set_write(set_present(set_addr(@, a.ret * PAGE_SIZE), TRUE), TRUE)]

\* get_mut_or_insert on the table t reads in frame `table`.
get_mut_or_insert_entry(t, table, idx, A) ==
    IF t.mem[table][idx].present
    THEN [t EXCEPT !.ret = t.mem[table][idx].addr \div PAGE_SIZE]
    ELSE insert_entry(alloc_new(t, A), table, idx)

\* IntermediatePageTable::get_mut_or_insert on the table in frame `table`,
\* for the entry with index idx: s.ret is the frame of the lower table.
get_mut_or_insert(s, table, idx, A) ==
    IF s.panic # NoPanic THEN s
    ELSE get_mut_or_insert_entry(from_frame(s, table), table, idx, A)

\* get_mut_or_insert on the table the previous step returned.
descend(s, idx, A) == get_mut_or_insert(s, s.ret, idx, A)

\* The walk of map_page and alloc_and_map_page below the PDPT.
descend_to_level_1(s, page, A) ==
    descend(descend(s, get_page_dir_ptr_idx(page), A),
            get_page_dir_idx(page), A)

\* IntermediatePageTable::get: the lower table of a present entry.
get(s, table, idx) ==
    LET entry == ReadTable(s, table)[idx]
    IN [some |-> entry.present, frame |-> entry.addr \div PAGE_SIZE]

(***************************************************************************)
(* Kernel view of the page tables (kernel/src/kmem/page.rs)                *)
(***************************************************************************)

None == [some |-> FALSE, entry |-> ZeroEntry]
Some(e) == [some |-> TRUE, entry |-> e]

\* KernelPageTables::get_entry
get_entry(s, page) ==
    LET level_3_map == get(s, s.level_4, get_page_map_l4_idx(page))
    IN IF ~level_3_map.some THEN None
       ELSE
       LET level_3_entry ==
               ReadTable(s, level_3_map.frame)[get_page_dir_ptr_idx(page)]
       IN IF level_3_entry.present /\ level_3_entry.page_size
          THEN Some(level_3_entry)
          ELSE
          LET level_2_map ==
                  get(s, level_3_map.frame, get_page_dir_ptr_idx(page))
          IN IF ~level_2_map.some THEN None
             ELSE
             LET level_1_map ==
                     get(s, level_2_map.frame, get_page_dir_idx(page))
             IN IF ~level_1_map.some THEN None
                ELSE Some(ReadTable(s, level_1_map.frame)
                                [get_page_table_idx(page)])

\* The page lies in a GiB that a present PDPT entry with page-size = 1 covers.
HugeCovered(s, page) ==
    /\ s.level_4 \in Frames
    /\ LET level_3_map == get(s, s.level_4, get_page_map_l4_idx(page))
       IN /\ level_3_map.some
          /\ LET e == ReadTable(s, level_3_map.frame)[get_page_dir_ptr_idx(page)]
             IN e.present /\ e.page_size

\* MappingType::DataRw.apply
MappingType_apply(e) == set_present(set_write(set_no_exec(e, TRUE), TRUE), TRUE)

NoMapping == [valid |-> FALSE, frame |-> 0, flags |-> "-"]

\* alloc_and_map_page: the backing frame b.ret is written to the entry.
alloc_and_map_page_install(b, table, page) ==
    IF b.panic # NoPanic THEN b
    ELSE IF ~b.some
    THEN Panic(b, "memory should be available for backing frame")
    ELSE [b EXCEPT !.mem[table][get_page_table_idx(page)] =
            MappingType_apply(set_addr(@, b.ret * PAGE_SIZE))]

\* alloc_and_map_page: the entry of the level-1 table and its backing frame.
alloc_and_map_page_backing(l1, page) ==
    IF l1.panic # NoPanic THEN l1
    ELSE alloc_and_map_page_install(
            phys_alloc_frame(from_frame(l1, l1.ret)), l1.ret, page)

\* alloc_and_map_page walking on without the huge-page test.
alloc_and_map_page_NoHugeTest(t, page) ==
    alloc_and_map_page_backing(
        descend_to_level_1(t, page, "PhysFrameAllocator"), page)

\* alloc_and_map_page on the level-3 table t.ret: the huge-page test, then
\* the rest of the walk.
alloc_and_map_page_level_3(t, page) ==
    IF /\ t.mem[t.ret][get_page_dir_ptr_idx(page)].present
       /\ t.mem[t.ret][get_page_dir_ptr_idx(page)].page_size
    THEN Panic(t, "tried to map area mapped as huge-page")
    ELSE alloc_and_map_page_backing(
            descend_to_level_1(t, page, "PhysFrameAllocator"), page)

\* alloc_and_map_page after the level-4 step.
alloc_and_map_page_checked(l3, page) ==
    IF l3.panic # NoPanic THEN l3
    ELSE alloc_and_map_page_level_3(from_frame(l3, l3.ret), page)

\* KernelPageTables::alloc_and_map_page(page, MappingType::DataRw, allocator)
alloc_and_map_page(s, page) ==
    IF s.panic # NoPanic THEN s
    ELSE alloc_and_map_page_checked(
            get_mut_or_insert(s, s.level_4, get_page_map_l4_idx(page),
                              "PhysFrameAllocator"), page)

(***************************************************************************)
(* Bootloader page-table editor (bootloader/src/mappings.rs)               *)
(***************************************************************************)

\* MappingFlags::new_rw_data, new_code, new_guard
MappingFlags ==
    [rw_data |-> [exec |-> FALSE, write |-> TRUE, present |-> TRUE],
     code |-> [exec |-> TRUE, write |-> FALSE, present |-> TRUE],
     guard |-> [exec |-> FALSE, write |-> FALSE, present |-> FALSE]]

\* MappingFlags::set_for_entry
set_for_entry(flags, e) ==
    set_present(set_write(set_no_exec(e, ~MappingFlags[flags].exec),
                          MappingFlags[flags].write),
                MappingFlags[flags].present)

\* map_page_entry on the level-1 table in frame s.ret.
map_page_entry(s, frame, page, flags) ==
    IF s.panic # NoPanic THEN s
    ELSE [from_frame(s, s.ret) EXCEPT
            !.mem[s.ret][get_page_table_idx(page)] =
                set_for_entry(flags, set_addr(@, frame * PAGE_SIZE))]

\* Mappings::new: the new table becomes the PML4.
Mappings_new_table(a) ==
    IF a.panic # NoPanic THEN a ELSE [a EXCEPT !.level_4 = a.ret]

Mappings_new(s) == Mappings_new_table(alloc_new(s, "FrameAllocator"))

\* History: map_page(frame, page, flags) has returned; it counts as a
\* mapping of the page if no huge-page entry covered the page.
record_mapping(d, huge, frame, page, flags) ==
    IF d.panic # NoPanic THEN d
    ELSE [d EXCEPT !.mapped[page] =
            IF huge THEN NoMapping
            ELSE [valid |-> TRUE, frame |-> frame, flags |-> flags]]

\* Mappings::map_page
map_page(s, frame, page, flags) ==
    IF s.panic # NoPanic THEN s
    ELSE record_mapping(
            map_page_entry(
                descend_to_level_1(
                    get_mut_or_insert(s, s.level_4, get_page_map_l4_idx(page),
                                      "FrameAllocator"),
                    page, "FrameAllocator"),
                frame, page, flags),
            HugeCovered(s, page), frame, page, flags)

\* for (frame, page) in frames.iter().zip(pages.iter()) { self.map_page(..) }
RECURSIVE map_pages(_, _, _, _, _)
map_pages(s, frame, page, n, flags) ==
    IF n = 0 \/ s.panic # NoPanic THEN s
    ELSE map_pages(map_page(s, frame, page, flags),
                   frame + 1, page + 1, n - 1, flags)

\* Mappings::map_page_range
map_page_range(s, frames, pages, flags) ==
    IF s.panic # NoPanic THEN s
    ELSE IF RangeLen(frames) # RangeLen(pages)
    THEN Panic(s, "assertion failed: frames.len() == pages.len()")
    ELSE map_pages(s, frames.start, pages.start, RangeLen(pages), flags)

\* alloc_and_map_range returns the frames.
return_frames(m, frames) ==
    IF m.panic # NoPanic THEN m ELSE [m EXCEPT !.range = frames]

\* alloc_and_map_range: the allocated frames a.range are mapped.
map_allocated(a, pages, flags) ==
    IF a.panic # NoPanic THEN a
    ELSE return_frames(map_page_range(a, a.range, pages, flags), a.range)

\* Mappings::alloc_and_map_range: s.range is the range of frames.
alloc_and_map_range(s, pages, flags) ==
    map_allocated(alloc_frame_range(s, RangeLen(pages)), pages, flags)

\* Mappings::direct_map_range
direct_map_range(s, frame_range) ==
    LET start_page == as_direct_mapped(frame_range.start)
        end_page == as_direct_mapped(frame_range.end)
    IN map_page_range(s, frame_range, PageRange(start_page, end_page), "rw_data")

\* direct_map_huge_page writing the PDPT entry without the page-size bit.
huge_page_entry_NoPageSize(e, frame) ==
    set_addr(set_present(set_write(set_no_exec(e, TRUE), TRUE), TRUE),
             frame * PAGE_SIZE)

\* The PDPT entry direct_map_huge_page writes for the GiB at `frame`.
huge_page_entry(e, frame) ==
    set_addr(set_page_size(
                set_present(set_write(set_no_exec(e, TRUE), TRUE), TRUE),
                TRUE),
             frame * PAGE_SIZE)

\* direct_map_huge_page: the entry of the level-3 table in frame l3.ret.
write_huge_page_entry(l3, frame, page) ==
    IF l3.panic # NoPanic THEN l3
    ELSE [from_frame(l3, l3.ret) EXCEPT
            !.mem[l3.ret][get_page_dir_ptr_idx(page)] =
                huge_page_entry(@, frame)]

\* The loop of direct_map_huge_page: one PDPT entry per GiB.
RECURSIVE map_huge_pages(_, _, _, _)
map_huge_pages(s, frame, page, end_frame) ==
    IF frame >= end_frame \/ s.panic # NoPanic THEN s
    ELSE map_huge_pages(
            write_huge_page_entry(
                get_mut_or_insert(s, s.level_4, get_page_map_l4_idx(page),
                                  "FrameAllocator"),
                frame, page),
            frame + HUGE_PAGE_SIZE_PAGES, page + HUGE_PAGE_SIZE_PAGES,
            end_frame)

\* Mappings::direct_map_huge_page
direct_map_huge_page(s, frame_range) ==
    LET start_page == as_direct_mapped(frame_range.start)
        end_page == as_direct_mapped(frame_range.end)
    IN IF s.panic # NoPanic THEN s
       ELSE IF \/ frame_range.start % HUGE_PAGE_SIZE_PAGES # 0
               \/ frame_range.end % HUGE_PAGE_SIZE_PAGES # 0
               \/ start_page % HUGE_PAGE_SIZE_PAGES # 0
               \/ end_page % HUGE_PAGE_SIZE_PAGES # 0
       THEN Panic(s, "assertion failed: huge range not aligned")
       ELSE map_huge_pages(s, frame_range.start, start_page, frame_range.end)

\* PageRange::aligned_range: the unaligned prefix, the whole aligned blocks
\* and the unaligned tail of a range (each absent when empty).
aligned_range(r, align) ==
    LET up == IF r.start % align = 0 THEN r.start
              ELSE align_down(r.start, align) + align
        down == align_down(r.end, align)
        prefix_end == IF up < r.end THEN up ELSE r.end
        tail_start == IF down > prefix_end THEN down ELSE prefix_end
    IN [start |-> [some |-> r.start < prefix_end,
                   range |-> PageRange(r.start, prefix_end)],
        middle |-> [some |-> up < down, range |-> PageRange(up, down)],
        end |-> [some |-> tail_start < r.end,
                 range |-> PageRange(tail_start, r.end)]]

\* The physical segment map_physical_memory skips (0xFD00000000), far above
\* the memory of the machine: here the first frame after the last.
IgnoredSegment == NumFrames

\* The descriptors map_physical_memory considers.
Considered(map) == SelectSeq(map, LAMBDA d : d.phys_start # IgnoredSegment)

\* max_by_key(phys_start): the last of the descriptors with the highest start.
highest_segment(map) ==
    LET c == Considered(map)
        best == {i \in 1 .. Len(c) :
                    \A j \in 1 .. Len(c) : c[j].phys_start <= c[i].phys_start}
    IN c[CHOOSE i \in best : \A j \in best : j <= i]

\* if let Some(range) = part { self.direct_map_range(range, allocator) }
map_small(s, part) == IF part.some THEN direct_map_range(s, part.range) ELSE s

\* if let Some(middle) = middle { self.direct_map_huge_page(middle, allocator) }
map_huge(s, part) == IF part.some THEN direct_map_huge_page(s, part.range) ELSE s

\* map_physical_memory: start, middle and end are mapped in this order.
map_parts(s, parts) ==
    map_small(map_huge(map_small(s, parts.start), parts.middle), parts.end)

\* The range map_physical_memory maps: frame 0 up to the end of the
\* highest segment.
physical_range(map) ==
    PageRange(0, highest_segment(map).phys_start + highest_segment(map).page_count)

\* Mappings::map_physical_memory
map_physical_memory(s, map) ==
    IF s.panic # NoPanic THEN s
    ELSE IF Considered(map) = <<>> THEN Panic(s, "Memory map was empty!")
    ELSE map_parts(s, aligned_range(physical_range(map), HUGE_PAGE_SIZE_PAGES))

(***************************************************************************)
(* Memory regions handed to the kernel (bootloader/src/boot_info.rs) and   *)
(* the kernel's frame allocator built from them (kernel/src/kmem/phys.rs)  *)
(***************************************************************************)

\* new_mem_region: the region type of a descriptor.
new_mem_region(d) ==
    [start |-> d.phys_start,
     pages |-> d.page_count,
     ty |-> IF d.ty \in {"CONVENTIONAL", "LOADER_CODE",
                         "BOOT_SERVICES_CODE", "BOOT_SERVICES_DATA"}
            THEN "Usable" ELSE "Allocated"]

\* MemRegion::as_range / MemRegion::from_range
as_range(r) == PageRange(r.start, r.start + r.pages)
from_range(range, ty) ==
    [start |-> range.start, pages |-> RangeLen(range), ty |-> ty]

\* MemRegionIter: contiguous descriptors of the same region type are merged.
RECURSIVE MemRegionIter(_, _)
MemRegionIter(map, acc) ==
    IF map = <<>> THEN acc
    ELSE LET peek_region == new_mem_region(Head(map))
             n == Len(acc)
         IN IF /\ n > 0
               /\ peek_region.ty = acc[n].ty
               /\ as_range(acc[n]).end = as_range(peek_region).start
            THEN MemRegionIter(Tail(map),
                    [acc EXCEPT ![n].pages = @ + peek_region.pages])
            ELSE MemRegionIter(Tail(map), Append(acc, peek_region))

\* FrameAllocator::reserved_range and used_range
reserved_range(a) == PageRange(a.alloc_start, a.alloc_end)
used_range(a) == range_length(a.alloc_start, a.next_frame - a.alloc_start)

\* PageRange::contains_range
contains_range(range, other) ==
    range.start <= other.start /\ other.end <= range.end

\* The array of MaybeUninit<MemRegion> and the index of the next write.
Uninit == [start |-> 0, pages |-> 0, ty |-> "uninit"]
NewArray(len) ==
    [array |-> [i \in 1 .. len |-> Uninit], idx |-> 0, panic |-> NoPanic]

\* mem_regions[idx].write(region); idx += 1
write_region(w, region) ==
    IF w.panic # NoPanic THEN w
    ELSE IF w.idx >= Len(w.array) THEN Panic(w, "index out of bounds")
    ELSE [w EXCEPT !.array[w.idx + 1] = region, !.idx = @ + 1]

\* if range.len() > 0 { mem_regions[idx].write(from_range(range, ty)) .. }
write_range(w, range, ty) ==
    IF RangeLen(range) > 0 THEN write_region(w, from_range(range, ty)) ELSE w

\* create_mem_regions, lines 209-227, writing the Bootloader region first.
SplitRegion_BootloaderFirst(w, region, a) ==
    write_range(
        write_range(
            write_region(w, from_range(used_range(a), "Bootloader")),
            PageRange(as_range(region).start, reserved_range(a).start),
            region.ty),
        PageRange(reserved_range(a).end, (as_range(region).end - 1) + 1),
        region.ty)

\* create_mem_regions, lines 209-227: the region that contains the
\* reservation is written as pre_range, the used range and post_range =
\* range_inclusive(alloc_reserved.end(), region_range.last()).
SplitRegion(w, region, a) ==
    write_range(
        write_region(
            write_range(
                w, PageRange(as_range(region).start, reserved_range(a).start),
                region.ty),
            from_range(used_range(a), "Bootloader")),
        PageRange(reserved_range(a).end, (as_range(region).end - 1) + 1),
        region.ty)

\* create_mem_regions, lines 203-231: one region of the iterator.
write_one(w, region, a) ==
    IF w.panic # NoPanic THEN w
    ELSE IF contains_range(as_range(region), reserved_range(a))
    THEN IF region.ty # "Usable"
         THEN Panic(w, "assertion failed: region.ty == RegionType::Usable")
         ELSE SplitRegion(w, region, a)
    ELSE write_region(w, region)

RECURSIVE SplitRegions(_, _, _)
SplitRegions(w, regions, a) ==
    IF regions = <<>> THEN w
    ELSE SplitRegions(write_one(w, Head(regions), a), Tail(regions), a)

\* create_mem_regions: the array of region_iter.count() + 2 regions and
\* the number of regions written.
create_mem_regions_array(map, a) ==
    SplitRegions(NewArray(Len(MemRegionIter(map, <<>>)) + 2),
                 MemRegionIter(map, <<>>), a)

\* The MemRegions the kernel is given: the regions written.
create_mem_regions(map, a) ==
    SubSeq(create_mem_regions_array(map, a).array, 1,
           create_mem_regions_array(map, a).idx)

\* PhysFrameAllocator::new, lines 107-112: the end of the highest region.
RECURSIVE highest_end(_, _)
highest_end(regions, end) ==
    IF regions = <<>> THEN end
    ELSE highest_end(Tail(regions),
                     IF as_range(Head(regions)).end > end
                     THEN as_range(Head(regions)).end ELSE end)

\* PageRange::len_bytes
len_bytes(range) == RangeLen(range) * PAGE_SIZE

\* num_frames.div_ceil(8)
required_bytes(num_frames) == (num_frames + 7) \div 8

\* alloc_storage, lines 75-79: regions.iter().find(..)
RECURSIVE find_usable(_, _)
find_usable(regions, bytes_needed) ==
    IF regions = <<>> THEN [some |-> FALSE, region |-> Uninit]
    ELSE IF /\ len_bytes(as_range(Head(regions))) > bytes_needed
            /\ Head(regions).ty = "Usable"
    THEN [some |-> TRUE, region |-> Head(regions)]
    ELSE find_usable(Tail(regions), bytes_needed)

\* alloc_storage, lines 81-100: the frames of the bytes of the bitmap.
storage_frames(region, bytes_needed) ==
    PageRange(PhysFrame_from_containing_u64(region.start * PAGE_SIZE),
              PhysFrame_from_containing_u64(
                    region.start * PAGE_SIZE + bytes_needed - 1) + 1)

\* PhysFrameAllocator::new, lines 128-135: the regions that are not usable.
RECURSIVE mark_regions(_, _)
mark_regions(b, regions) ==
    IF regions = <<>> THEN b
    ELSE mark_regions(
            IF Head(regions).ty # "Usable"
            THEN [map |-> write_allocated(b.map, as_range(Head(regions)).start,
                                          as_range(Head(regions)).end),
                  allocated |-> b.allocated + RangeLen(as_range(Head(regions)))]
            ELSE b,
            Tail(regions))

\* PhysFrameAllocator::new, lines 137-140: the frames of the bitmap.
mark_storage(b, used_frames) ==
    [map |-> write_allocated(b.map, used_frames.start, used_frames.end),
     allocated |-> b.allocated + RangeLen(used_frames)]

\* PhysFrameAllocator::new, lines 116-146, with the storage found: the
\* bytes are written as zeroes, then the frames are marked.
PhysFrameAllocator_marked(s, regions, end, usable) ==
    LET b == mark_storage(
                mark_regions(
                    [map |-> [i \in 0 .. required_bytes(end) - 1 |-> 0],
                     allocated |-> 0],
                    regions),
                storage_frames(usable.region, required_bytes(end)))
    IN [s EXCEPT !.phys = [bitmap |-> b.map, range_end |-> end,
                           allocated |-> b.allocated]]

\* PhysFrameAllocator::new, from the end of the range on.
PhysFrameAllocator_stored(s, regions, end) ==
    IF ~find_usable(regions, required_bytes(end)).some
    THEN Panic(s, "No memory region available for allocating phys frame buffer!")
    ELSE PhysFrameAllocator_marked(
            s, regions, end, find_usable(regions, required_bytes(end)))

\* PhysFrameAllocator::new
PhysFrameAllocator_new(s, regions) ==
    IF s.panic # NoPanic THEN s
    ELSE PhysFrameAllocator_stored(s, regions, highest_end(regions, 0))

(***************************************************************************)
(* The boot sequence and the kernel's memory set-up as a state machine     *)
(***************************************************************************)

\* UEFI memory maps, in frames.
MemoryMaps ==
    {<<Descriptor("CONVENTIONAL", 0, 2 * HUGE_PAGE_SIZE_PAGES),
       Descriptor("RESERVED", IgnoredSegment, 1)>>,
     <<Descriptor("RESERVED", 0, 1),
       Descriptor("CONVENTIONAL", 1, 2 * HUGE_PAGE_SIZE_PAGES - 2)>>,
     <<Descriptor("BOOT_SERVICES_DATA", 0, 1),
       Descriptor("CONVENTIONAL", 1, MinFrames),
       Descriptor("LOADER_DATA", 1 + MinFrames, 1)>>}

\* Pages, frames and ranges the operations are called with: a low page, a
\* page of the first GiB of the direct map and one of the second GiB.
TestPages ==
    {0, as_direct_mapped(1), as_direct_mapped(HUGE_PAGE_SIZE_PAGES + 1)}
TestFrame == NumFrames - 1
FlagNames == DOMAIN MappingFlags
TestPageRanges ==
    {range_length(0, 0), range_length(0, 2),
     range_length(as_direct_mapped(HUGE_PAGE_SIZE_PAGES), 2)}
TestFrameRanges == {range_length(NumFrames - 2, 1), range_length(NumFrames - 2, 2)}

NoOp == [op |-> "none"]

\* The state as the record the operations work on.
St ==
    [alloc |-> allocator, level_4 |-> level_4, mem |-> mem,
     defined |-> defined, phys |-> phys, panic |-> panic,
     returned |-> returned, cleared |-> cleared, mapped |-> mapped,
     bytes |-> bytes, junk |-> ZeroTable, ret |-> 0, some |-> FALSE,
     range |-> NoRange, result |-> "none", checks |-> TRUE, value |-> 0,
     info |-> boot]

WithJunk(g) == [St EXCEPT !.junk = g]

\* What an operation can find in memory nobody has written: it matters only
\* if the operation reads such memory.
Junks(F(_)) ==
    LET r == F(ZeroTable)
    IN IF r.defined \ (defined \cup r.cleared) # {} THEN JunkTables
       ELSE {ZeroTable}

\* The state after an operation; a page that a huge-page entry covers is
\* no longer a page mapped by map_page.
Commit(s, l) ==
    /\ allocator' = s.alloc
    /\ level_4' = s.level_4
    /\ mem' = s.mem
    /\ defined' = s.defined
    /\ phys' = s.phys
    /\ panic' = s.panic
    /\ returned' = s.returned
    /\ cleared' = s.cleared
    /\ mapped' = [p \in Pages |->
                    IF HugeCovered(s, p) THEN NoMapping ELSE s.mapped[p]]
    /\ last' = l
    /\ bytes' = s.bytes
    /\ UNCHANGED memory_map
    /\ UNCHANGED <<syncVars, devVars>>

Running_boot == phase \in {"boot", "direct"} /\ panic = NoPanic
CanMap == Running_boot /\ level_4 \in Frames /\ nops < MaxOps

InitMem ==
    /\ memory_map \in MemoryMaps
    /\ allocator = FrameAllocator_new(memory_map, MinFrames)
    /\ level_4 = -1
    /\ mem = [f \in Frames |-> ZeroTable]
    /\ defined = {}
    /\ phys = [bitmap |-> <<>>, range_end |-> 0, allocated |-> 0]
    /\ phase = "boot"
    /\ panic = NoPanic
    /\ nops = 0
    /\ returned = <<>>
    /\ cleared = {}
    /\ mapped = [p \in Pages |-> NoMapping]
    /\ last = NoOp
    /\ bytes = <<>>
    /\ boot = <<>>
    /\ SyncIdle
    /\ DevIdle

\* frame_allocator.alloc_frame()
AllocFrame ==
    /\ Running_boot /\ nops < MaxOps
    /\ LET s == alloc_frame(St)
       IN Commit(s, [op |-> "alloc_frame", pre_alloc |-> allocator,
                     pre_returned |-> returned, ret |-> s.ret])
    /\ nops' = nops + 1
    /\ UNCHANGED <<phase, boot>>

\* frame_allocator.alloc_frame_range(n)
AllocFrameRange ==
    /\ Running_boot /\ nops < MaxOps
    /\ \E n \in 0 .. 2 :
        LET s == alloc_frame_range(St, n)
        IN Commit(s, [op |-> "alloc_frame_range", n |-> n,
                      pre_alloc |-> allocator, pre_returned |-> returned,
                      range |-> s.range])
    /\ nops' = nops + 1
    /\ UNCHANGED <<phase, boot>>

\* Mappings::new(&mut frame_allocator)
NewMappings ==
    /\ Running_boot /\ level_4 = -1
    /\ Commit(Mappings_new(St), [op |-> "new_mappings"])
    /\ UNCHANGED <<phase, nops, boot>>

\* mappings.map_page(frame, page, &mut frame_allocator, flags)
MapPage ==
    /\ CanMap
    /\ \E page \in TestPages, flags \in FlagNames :
        \E g \in Junks(LAMBDA j : map_page(WithJunk(j), TestFrame, page, flags)) :
            Commit(map_page(WithJunk(g), TestFrame, page, flags),
                   [op |-> "map_page", pages |-> range_length(page, 1),
                    huge |-> HugeCovered(St, page)])
    /\ nops' = nops + 1
    /\ UNCHANGED <<phase, boot>>

\* mappings.map_page_range(frames, pages, &mut frame_allocator, flags)
MapPageRange ==
    /\ CanMap
    /\ \E frames \in TestFrameRanges, pages \in TestPageRanges :
        \E g \in Junks(LAMBDA j :
                    map_page_range(WithJunk(j), frames, pages, "rw_data")) :
            Commit(map_page_range(WithJunk(g), frames, pages, "rw_data"),
                   [op |-> "map_page_range", pages |-> pages,
                    huge |-> \E p \in RangeSet(pages) : HugeCovered(St, p)])
    /\ nops' = nops + 1
    /\ UNCHANGED <<phase, boot>>

\* mappings.alloc_and_map_range(pages, &mut frame_allocator, flags)
AllocAndMapRange ==
    /\ CanMap
    /\ \E pages \in TestPageRanges, flags \in {"rw_data", "code"} :
        \E g \in Junks(LAMBDA j :
                    alloc_and_map_range(WithJunk(j), pages, flags)) :
            Commit(alloc_and_map_range(WithJunk(g), pages, flags),
                   [op |-> "alloc_and_map_range", pages |-> pages,
                    huge |-> \E p \in RangeSet(pages) : HugeCovered(St, p)])
    /\ nops' = nops + 1
    /\ UNCHANGED <<phase, boot>>

\* mappings.map_physical_memory(&memory_map, &mut frame_allocator)
MapPhysicalMemory ==
    /\ CanMap /\ phase = "boot"
    /\ Commit(map_physical_memory(St, memory_map),
              [op |-> "map_physical_memory"])
    /\ phase' = "direct"
    /\ nops' = nops + 1
    /\ UNCHANGED boot

\* The bootloader writes the memory regions and jumps to the kernel, which
\* builds KernelPageTables::new() from CR3 and PhysFrameAllocator::new from
\* the regions.
Handoff ==
    /\ phase = "direct" /\ panic = NoPanic
    /\ LET s == PhysFrameAllocator_new(St, create_mem_regions(memory_map, allocator))
       IN Commit([s EXCEPT !.mapped = [p \in Pages |-> NoMapping]],
                 [op |-> "handoff"])
    /\ phase' = "kernel"
    /\ UNCHANGED <<nops, boot>>

\* page_tables.alloc_and_map_page(page, MappingType::DataRw, &mut allocator)
KernelAllocAndMapPage ==
    /\ phase = "kernel" /\ panic = NoPanic /\ nops < MaxOps
    /\ \E page \in TestPages :
        \E g \in Junks(LAMBDA j : alloc_and_map_page(WithJunk(j), page)) :
            Commit(alloc_and_map_page(WithJunk(g), page),
                   [op |-> "kernel_alloc_and_map_page", page |-> page,
                    huge |-> HugeCovered(St, page),
                    pre_mem |-> mem, pre_phys |-> phys])
    /\ nops' = nops + 1
    /\ UNCHANGED <<phase, boot>>

\* allocator.alloc_frame() of the kernel
KernelAllocFrame ==
    /\ phase = "kernel" /\ panic = NoPanic /\ nops < MaxOps
    /\ LET s == phys_alloc_frame(St)
       IN Commit(s, [op |-> "kernel_alloc_frame", pre_phys |-> phys,
                     some |-> s.some, ret |-> s.ret])
    /\ nops' = nops + 1
    /\ UNCHANGED <<phase, boot>>

NextMem ==
    \/ AllocFrame
    \/ AllocFrameRange
    \/ NewMappings
    \/ MapPage
    \/ MapPageRange
    \/ AllocAndMapRange
    \/ MapPhysicalMemory
    \/ Handoff
    \/ KernelAllocAndMapPage
    \/ KernelAllocFrame

SpecMem == InitMem /\ [][NextMem]_vars

(***************************************************************************)
(* The kernel loader (bootloader/src/loader.rs)                            *)
(***************************************************************************)

\* The data of physical memory is followed in parts of CopyUnit bytes:
\* every address and size the loader is given is a multiple of it.
CopyUnit == PAGE_SIZE \div 2
Parts == 0 .. (PAGE_SIZE \div CopyUnit) - 1
JunkData == <<"junk">>
ZeroData == <<"zero">>
FileData(frame, part) == <<"file", frame, part>>
ZeroFrame == [c \in Parts |-> ZeroData]

\* The kernel file read_file_data has read into LOADER_DATA pages.
KernelBlobFrames == 3
KernelBlobStart == NumFrames - KernelBlobFrames
kernel_phys_offset == KernelBlobStart * PAGE_SIZE

\* phdr_flags_to_mappings_flags: the headers carry the flags by name.
phdr_flags_to_mappings_flags(phdr) == phdr.flags

\* LoaderResult: Ok(..) and Err(..)
Ok(s) == IF s.panic # NoPanic THEN s ELSE [s EXCEPT !.result = "Ok"]
Err(s, e) == [s EXCEPT !.result = e]

\* write_bytes(frame, 0, PAGE_SIZE) for the frames of a.range.
write_zeroes(a) ==
    IF a.panic # NoPanic THEN a
    ELSE [a EXCEPT !.bytes =
            [f \in DOMAIN @ |-> IF f \in RangeSet(a.range) THEN ZeroFrame
                                ELSE @[f]]]

\* copy_nonoverlapping(src_addr, dst_addr, copy_len)
copy_nonoverlapping(z, src_frame, dst_frame, offset, copy_len) ==
    [z EXCEPT !.bytes[dst_frame] =
        [c \in Parts |->
            IF offset <= c * CopyUnit /\ c * CopyUnit < offset + copy_len
            THEN z.bytes[src_frame][c] ELSE @[c]]]

\* map_load_segment, lines 261-282: the file data of the last file frame
\* goes to the first zeroed frame.
copy_file_data(z, src_frame, dst_frame, src_addr, file_data_end) ==
    IF file_data_end - src_addr >= PAGE_SIZE
    THEN Panic(z, "assertion failed: copy_len < PAGE_SIZE")
    ELSE IF file_data_end - src_addr = 0 THEN z
    ELSE copy_nonoverlapping(z, src_frame, dst_frame,
                             src_addr - PhysFrame_base_u64(src_frame),
                             file_data_end - src_addr)

Max(a, b) == IF a >= b THEN a ELSE b

\* map_load_segment, lines 253-291.
map_load_segment_fixup(z, phdr, sps, file_frames, file_pages, zeroed_pages) ==
    IF z.panic # NoPanic THEN z
    ELSE IF file_pages.end - 1 = zeroed_pages.start
    THEN Ok(map_page(
                copy_file_data(z, file_frames.end - 1, z.range.start,
                    Max(PhysFrame_base_u64(file_frames.end - 1), sps),
                    sps + phdr.file_size),
                z.range.start, zeroed_pages.start,
                phdr_flags_to_mappings_flags(phdr)))
    ELSE Ok(z)

\* map_load_segment, lines 237-246.
map_load_segment_alloc(m, phdr, sps, file_frames, file_pages, zeroed_pages) ==
    IF zeroed_pages.panic # NoPanic THEN Panic(m, zeroed_pages.panic)
    ELSE IF RangeLen(zeroed_pages.value) = 0 THEN Ok(m)
    ELSE map_load_segment_fixup(
            write_zeroes(alloc_frame_range(m, RangeLen(zeroed_pages.value))),
            phdr, sps, file_frames, file_pages, zeroed_pages.value)

\* map_load_segment, lines 229-233.
map_load_segment_zeroed(m, phdr, sps, file_frames, file_pages) ==
    IF m.panic # NoPanic THEN m
    ELSE IF EndOverflows(phdr.virtual_addr, phdr.mem_size) /\ m.checks
    THEN Panic(m, "attempt to subtract with overflow")
    ELSE map_load_segment_alloc(m, phdr, sps, file_frames, file_pages,
            VirtPage_range_inclusive_u64(
                phdr.virtual_addr + phdr.file_size,
                u64(phdr.virtual_addr + phdr.mem_size - 1), m.checks))

\* map_load_segment, lines 216-227.
map_load_segment_mapped(s, phdr, sps, file_frames, file_pages) ==
    IF file_pages.panic # NoPanic THEN Panic(s, file_pages.panic)
    ELSE IF ~is_valid_kernel_addr(VirtPage_base_u64(file_pages.value.start))
    THEN Err(s, "InvalidKernelSegmentAddress")
    ELSE map_load_segment_zeroed(
            map_page_range(s, file_frames, file_pages.value,
                           phdr_flags_to_mappings_flags(phdr)),
            phdr, sps, file_frames, file_pages.value)

\* map_load_segment, lines 204-214.
map_load_segment_file(s, phdr, sps) ==
    IF EndOverflows(phdr.virtual_addr, phdr.file_size) /\ s.checks
    THEN Panic(s, "attempt to subtract with overflow")
    ELSE map_load_segment_mapped(s, phdr, sps,
            PhysFrame_range_inclusive_u64(sps, sps + phdr.file_size),
            VirtPage_range_inclusive_u64(
                phdr.virtual_addr,
                u64(phdr.virtual_addr + phdr.file_size - 1), s.checks))

\* Loader::map_load_segment
map_load_segment(s, phdr) ==
    IF s.panic # NoPanic THEN s
    ELSE IF phdr.align # PAGE_SIZE THEN Err(s, "ImproperAlignment")
    ELSE map_load_segment_file(s, phdr, kernel_phys_offset + phdr.offset)

\* create_kernel_stack, line 326: the address returned.
stack_top_of(m, stack_pages) ==
    IF m.panic # NoPanic THEN m
    ELSE [m EXCEPT !.value =
            VirtPage_base_u64(stack_pages.end - 1) - 16]

\* create_kernel_stack, lines 317-326.
create_kernel_stack_pages(m, stack_start) ==
    IF m.panic # NoPanic THEN m
    ELSE IF stack_start.panic # NoPanic THEN Panic(m, stack_start.panic)
    ELSE stack_top_of(
            alloc_and_map_range(
                m, range_length(stack_start.value, KERNEL_STACK_PAGES),
                "rw_data"),
            range_length(stack_start.value, KERNEL_STACK_PAGES))

\* create_kernel_stack, lines 306-312.
create_kernel_stack_guard(s, guard_page) ==
    IF guard_page.panic # NoPanic THEN Panic(s, guard_page.panic)
    ELSE create_kernel_stack_pages(
            map_page(s, 0, guard_page.value, "guard"),
            VirtPage_next(guard_page.value, s.checks))

\* Loader::create_kernel_stack
create_kernel_stack(s, kernel_end) ==
    IF s.panic # NoPanic THEN s
    ELSE create_kernel_stack_guard(
            s, VirtPage_next(VirtPage_from_containing_u64(kernel_end),
                             s.checks))

(***************************************************************************)
(* The bootloader loading the kernel, as a state machine                   *)
(***************************************************************************)

\* KernelMemoryManager::KERNEL_HEAP_PAGES, scaled.
HeapPages == 2

\* The frames of the conventional region the boot frame allocator leaves
\* to the kernel.
KernelFrames == 2 * HeapPages

\* The frames the boot frame allocator reserves when the kernel is loaded.
BootReservation == KernelBlobStart - KernelFrames

BootMemoryMap ==
    <<Descriptor("CONVENTIONAL", 0, KernelBlobStart),
      Descriptor("LOADER_DATA", KernelBlobStart, KernelBlobFrames)>>

\* PT_LOAD program headers.
Header(virtual_addr, offset, file_size, mem_size, align, flags) ==
    [virtual_addr |-> virtual_addr, offset |-> offset,
     file_size |-> file_size, mem_size |-> mem_size,
     align |-> align, flags |-> flags]

\* Address 0, an address that is not canonical, KERNEL_START and an
\* address inside the first kernel page.
TestVirtAddrs ==
    {0, PHYSMEM_START * PAGE_SIZE, KERNEL_START, KERNEL_START + CopyUnit}
TestOffsets == {0, CopyUnit}
TestFileSizes == {0, CopyUnit, 2 * CopyUnit, 3 * CopyUnit}
TestZeroSizes == {0, CopyUnit, 3 * CopyUnit}
TestAligns == {PAGE_SIZE, 2 * PAGE_SIZE}
SegmentFlags == {"code", "rw_data"}

Headers ==
    {Header(va, off, fs, fs + zs, al, fl) :
        va \in TestVirtAddrs, off \in TestOffsets, fs \in TestFileSizes,
        zs \in TestZeroSizes, al \in TestAligns, fl \in SegmentFlags}

\* Kernels of two segments: code, then data above or below it.
TextSegments ==
    {Header(KERNEL_START + p * PAGE_SIZE, 0, CopyUnit, CopyUnit,
            PAGE_SIZE, "code") : p \in {0, 4}}
DataSegments ==
    {Header(KERNEL_START + 2 * PAGE_SIZE, 0, CopyUnit, CopyUnit + zs, al,
            "rw_data") : zs \in {0, CopyUnit}, al \in TestAligns}

ElfFiles ==
    {<<>>} \cup {<<h>> : h \in Headers}
           \cup {<<t, d>> : t \in TextSegments, d \in DataSegments}

InitBoot ==
    /\ memory_map = BootMemoryMap
    /\ allocator = FrameAllocator_new(memory_map, BootReservation)
    /\ level_4 = -1
    /\ mem = [f \in Frames |-> ZeroTable]
    /\ defined = {}
    /\ phys = [bitmap |-> <<>>, range_end |-> 0, allocated |-> 0]
    /\ phase = "boot"
    /\ panic = NoPanic
    /\ nops = 0
    /\ returned = <<>>
    /\ cleared = {}
    /\ mapped = [p \in Pages |-> NoMapping]
    /\ last = NoOp
    /\ bytes = [f \in Frames |->
                    [c \in Parts |-> IF f >= KernelBlobStart
                                     THEN FileData(f, c) ELSE JunkData]]
    /\ \E elf \in ElfFiles :
            boot = [elf |-> elf, idx |-> 1, kernel_end |-> 0,
                    stack_top |-> 0, result |-> "none"]
    /\ SyncIdle
    /\ DevIdle

\* The build: with or without overflow checks.
Build(checks) == [St EXCEPT !.checks = checks]

Loading == phase = "boot" /\ panic = NoPanic /\ level_4 \in Frames

\* load_kernel, lines 337-346: one PT_LOAD header of the file.
LoadSegment ==
    /\ Loading /\ boot.idx <= Len(boot.elf)
    /\ \E checks \in BOOLEAN :
        LET phdr == boot.elf[boot.idx]
            s == map_load_segment(Build(checks), phdr)
        IN /\ Commit(s, [op |-> "map_load_segment", phdr |-> phdr,
                         result |-> s.result, zeroed_frames |-> s.range,
                         pre_alloc |-> allocator, pre_mem |-> mem,
                         pre_bytes |-> bytes])
           /\ boot' = IF s.result = "Ok"
                      THEN [boot EXCEPT
                              !.idx = @ + 1,
                              !.kernel_end =
                                  Max(@, phdr.virtual_addr + phdr.mem_size)]
                      ELSE [boot EXCEPT !.result = s.result]
           /\ phase' = IF s.result = "Ok" \/ s.panic # NoPanic
                       THEN phase ELSE "failed"
    /\ UNCHANGED nops

\* load_kernel, lines 348-360: the stack, and the addresses returned.
FinishLoad ==
    /\ Loading /\ boot.idx > Len(boot.elf)
    /\ \E checks \in BOOLEAN :
        LET s == create_kernel_stack(Build(checks), boot.kernel_end)
        IN /\ Commit(s, [op |-> "load_kernel", pre_alloc |-> allocator])
           /\ boot' = IF s.panic # NoPanic THEN boot
                      ELSE [boot EXCEPT !.result = "Ok",
                                        !.stack_top = s.value]
    /\ phase' = "loaded"
    /\ UNCHANGED nops

\* bootstrap_heap_area, lines 66-68: alloc_and_map_page for each page of
\* the range.
RECURSIVE map_heap_pages(_, _, _)
map_heap_pages(s, page, end) ==
    IF page >= end \/ s.panic # NoPanic THEN s
    ELSE map_heap_pages(alloc_and_map_page(s, page), page + 1, end)

\* bootstrap_heap_area, lines 62-70, after next().
bootstrap_heap_area_from(s, start) ==
    IF start.panic # NoPanic THEN Panic(s, start.panic)
    ELSE [map_heap_pages(s, start.value, start.value + HeapPages)
            EXCEPT !.range = range_length(start.value, HeapPages)]

\* KernelMemoryManager::bootstrap_heap_area
bootstrap_heap_area(s, stack_top) ==
    IF s.panic # NoPanic THEN s
    ELSE bootstrap_heap_area_from(
            s, VirtPage_next(VirtPage_from_containing_u64(stack_top),
                             s.checks))

\* KernelMemoryManager::new, lines 74-81, on the tables and the memory
\* regions the bootloader hands over.
KernelMemoryManager_new(s, stack_top) ==
    bootstrap_heap_area(
        PhysFrameAllocator_new(s, create_mem_regions(memory_map, s.alloc)),
        stack_top)

\* The kernel builds its memory manager after a successful load.
BootstrapHeap ==
    /\ phase = "loaded" /\ panic = NoPanic /\ boot.result = "Ok"
    /\ \E checks \in BOOLEAN :
        \E g \in Junks(LAMBDA j : KernelMemoryManager_new(
                        [WithJunk(j) EXCEPT !.checks = checks],
                        boot.stack_top)) :
            LET s == KernelMemoryManager_new(
                        [WithJunk(g) EXCEPT !.checks = checks],
                        boot.stack_top)
            IN Commit(s, [op |-> "bootstrap_heap_area",
                          heap_pages |-> s.range,
                          pre_mem |-> mem])
    /\ phase' = "heap"
    /\ UNCHANGED <<nops, boot>>

NextBoot ==
    \/ NewMappings
    \/ LoadSegment
    \/ FinishLoad
    \/ BootstrapHeap

SpecBoot == InitBoot /\ [][NextBoot]_vars

(***************************************************************************)
(* The boot information (bootloader/src/boot_info.rs)                      *)
(*                                                                         *)
(* s.info is the record create_boot_info builds: the arena frame and its  *)
(* bump pointer, the next page of the boot-info section, the addresses    *)
(* computed and the memory regions written.                                *)
(***************************************************************************)

\* size_of and align_of of the #[repr(C)] records.
MemRegion_size == 24
MemRegion_align == 8
BootInfo_size == 56
BootInfo_align == 8

\* align_up
align_up(addr, align) ==
    IF align_down(addr, align) = addr THEN addr
    ELSE align_down(addr, align) + align

\* The pages of the boot-info section:
\* range_length(from_base_u64(BOOTINFO_START), BOOTINFO_SIZE / PAGE_SIZE)
BootInfoPages ==
    range_length(VirtPage_from_containing_u64(BOOTINFO_START),
                 BOOTINFO_SIZE \div PAGE_SIZE)

NoInfo ==
    [frame |-> 0, current |-> 0, page_next |-> 0, boot_info_page |-> 0,
     virtual_offset |-> 0, fb_addr |-> 0, fb_len |-> 0,
     fb_pages |-> NoRange, fb_frames |-> NoRange, fb_address |-> 0,
     array |-> <<>>, num_regions |-> 0,
     regions_phys |-> 0, regions_ptr |-> 0,
     boot_info_phys |-> 0, boot_info_ptr |-> 0]

\* BootInfoAllocator::new
BootInfoAllocator_new_frame(a) ==
    IF a.panic # NoPanic THEN a
    ELSE [a EXCEPT !.info.frame = a.ret,
                   !.info.current = PhysFrame_base_u64(a.ret)]
BootInfoAllocator_new(s) == BootInfoAllocator_new_frame(alloc_frame(s))

\* BootInfoAllocator::allocate and allocate_array for size bytes: the
\* address is left in s.value.
BootInfoAllocator_allocate(s, size, align) ==
    IF s.panic # NoPanic THEN s
    ELSE IF align_up(s.info.current, align) + size
                >= PhysFrame_base_u64(s.info.frame + 1)
    THEN Panic([s EXCEPT !.info.current = align_up(@, align) + size],
               "No space left in BootInfoAllocator!")
    ELSE [s EXCEPT !.value = align_up(s.info.current, align),
                   !.info.current = align_up(@, align) + size]

\* BootInfoPageAllocator::new
BootInfoPageAllocator_new(s) ==
    IF s.panic # NoPanic THEN s
    ELSE [s EXCEPT !.info.page_next = BootInfoPages.start]

\* BootInfoPageAllocator::alloc: the page is left in s.ret.
BootInfoPageAllocator_alloc(s) ==
    IF s.panic # NoPanic THEN s
    ELSE IF s.info.page_next >= BootInfoPages.end
    THEN Panic(s, "No virtual memory remaining in BootInfo section!")
    ELSE [s EXCEPT !.ret = s.info.page_next, !.info.page_next = @ + 1]

\* for _ in 0..n { self.alloc(); }
RECURSIVE alloc_n(_, _)
alloc_n(s, n) ==
    IF n = 0 \/ s.panic # NoPanic THEN s
    ELSE alloc_n(BootInfoPageAllocator_alloc(s), n - 1)

\* alloc_pages, lines 101-104: the range must end at the page peeked.
alloc_pages_check(a, first, n) ==
    IF a.panic # NoPanic THEN a
    ELSE IF a.info.page_next >= BootInfoPages.end
            \/ (first + n - 1) + 1 # a.info.page_next
    THEN Panic(a, "assertion failed: Some(&range.last().next()) == self.iter.peek()")
    ELSE [a EXCEPT !.range = range_length(first, n)]

\* BootInfoPageAllocator::alloc_pages: the range is left in s.range.
BootInfoPageAllocator_alloc_pages(s, n) ==
    IF s.panic # NoPanic THEN s
    ELSE IF s.info.page_next >= BootInfoPages.end
    THEN Panic(s, "No virtual memory remaining in BootInfo section!")
    ELSE alloc_pages_check(alloc_n(s, n), s.info.page_next, n)

\* create_boot_info, lines 286-297: the arena frame is mapped at the page.
map_boot_info_page(s) ==
    IF s.panic # NoPanic THEN s
    ELSE map_page([s EXCEPT !.info.boot_info_page = s.ret,
                            !.info.virtual_offset =
                                u64(VirtPage_base_u64(s.ret)
                                    - PhysFrame_base_u64(s.info.frame))],
                  s.info.frame, s.ret, "rw_data")

\* map_framebuffer, lines 262-265: the frames are mapped at the pages.
map_framebuffer_pages(a, frames) ==
    IF a.panic # NoPanic THEN a
    ELSE map_page_range([a EXCEPT !.info.fb_pages = a.range,
                                  !.info.fb_frames = frames],
                        frames, a.range, "rw_data")

\* map_framebuffer
map_framebuffer(s, addr, len) ==
    IF s.panic # NoPanic THEN s
    ELSE map_framebuffer_pages(
            BootInfoPageAllocator_alloc_pages(
                s, RangeLen(PhysFrame_range_inclusive_u64(addr, addr + len))),
            PhysFrame_range_inclusive_u64(addr, addr + len))

\* fixup_pointer that leaves the physical address.
fixup_pointer_Physical(virtual_offset, pointer) == u64(pointer)

\* fixup_pointer
fixup_pointer(virtual_offset, pointer) == u64(pointer + virtual_offset)

\* create_boot_info, lines 302-305: the address of the framebuffer.
framebuffer_address(m, addr, len) ==
    IF m.panic # NoPanic THEN m
    ELSE [m EXCEPT !.info.fb_addr = addr, !.info.fb_len = len,
                   !.info.fb_address =
                        fixup_pointer(
                            u64(VirtPage_base_u64(m.info.fb_pages.start)
                                - PhysFrame_base_u64(
                                    PhysFrame_from_containing_u64(addr))),
                            addr)]

\* create_mem_regions, lines 203-235, on the array allocated.
write_mem_regions(a, w) ==
    IF a.panic # NoPanic THEN a
    ELSE IF w.panic # NoPanic THEN Panic(a, w.panic)
    ELSE [a EXCEPT !.info.array = w.array, !.info.num_regions = w.idx,
                   !.info.regions_phys = a.value]

\* create_mem_regions(memory_map, frame_allocator, boot_info_alloc)
create_mem_regions_in(s, map) ==
    IF s.panic # NoPanic THEN s
    ELSE write_mem_regions(
            BootInfoAllocator_allocate(
                s, MemRegion_size * (Len(MemRegionIter(map, <<>>)) + 2),
                MemRegion_align),
            create_mem_regions_array(map, s.alloc))

\* create_boot_info, lines 310-322: the BootInfo written and the pointer
\* returned.
write_boot_info(a) ==
    IF a.panic # NoPanic THEN a
    ELSE [a EXCEPT !.info.boot_info_phys = a.value,
                   !.info.regions_ptr =
                        fixup_pointer(a.info.virtual_offset,
                                      a.info.regions_phys),
                   !.info.boot_info_ptr =
                        fixup_pointer(a.info.virtual_offset, a.value)]

\* create_boot_info
create_boot_info(s, addr, len, map) ==
    write_boot_info(
        BootInfoAllocator_allocate(
            create_mem_regions_in(
                framebuffer_address(
                    map_framebuffer(
                        map_boot_info_page(
                            BootInfoPageAllocator_alloc(
                                BootInfoPageAllocator_new(
                                    BootInfoAllocator_new(
                                        [s EXCEPT !.info = NoInfo])))),
                        addr, len),
                    addr, len),
                map),
            BootInfo_size, BootInfo_align))

(***************************************************************************)
(* The boot information and the kernel's frame allocator as a state        *)
(* machine: the bootloader writes the boot information for a firmware      *)
(* memory map, the kernel builds its frame bitmap from the regions and     *)
(* allocates and frees frames.                                             *)
(***************************************************************************)

\* Firmware memory maps, sorted and without overlap: what lies below the
\* descriptor the boot allocator reserves its frames in, that descriptor,
\* and what lies above it.
LowDescriptors ==
    {<<>>,
     <<Descriptor("BOOT_SERVICES_DATA", 0, 1)>>,
     <<Descriptor("RESERVED", 0, 2)>>,
     <<Descriptor("CONVENTIONAL", 0, 1), Descriptor("RESERVED", 1, 1)>>}
MapStart(low) ==
    IF low = <<>> THEN 0
    ELSE low[Len(low)].phys_start + low[Len(low)].page_count
HighDescriptors(start) ==
    {<<>>,
     <<Descriptor("LOADER_DATA", start, 1)>>,
     <<Descriptor("BOOT_SERVICES_CODE", start, 1)>>,
     <<Descriptor("RESERVED", start + 1, 2)>>,
     <<Descriptor("LOADER_DATA", start, 1),
       Descriptor("RESERVED", start + 1, 1),
       Descriptor("CONVENTIONAL", start + 3, 1)>>}
InfoMaps ==
    UNION {{low \o <<Descriptor("CONVENTIONAL", MapStart(low), n)>> \o high :
                high \in HighDescriptors(MapStart(low) + n)} :
            low \in LowDescriptors, n \in {MinFrames, MinFrames + 1}}

\* Framebuffers: above the memory, at the start of a frame or inside it.
FramebufferBase == (NumFrames - 3) * PAGE_SIZE
TestFramebuffers ==
    {[addr |-> FramebufferBase + off, len |-> len] :
        off \in {0, 16}, len \in {PAGE_SIZE - 16, 2 * PAGE_SIZE}}

InitInfo ==
    /\ memory_map \in InfoMaps
    /\ allocator = FrameAllocator_new(memory_map, MinFrames)
    /\ level_4 = -1
    /\ mem = [f \in Frames |-> ZeroTable]
    /\ defined = {}
    /\ phys = [bitmap |-> <<>>, range_end |-> 0, allocated |-> 0]
    /\ phase = "boot"
    /\ panic = NoPanic
    /\ nops = 0
    /\ returned = <<>>
    /\ cleared = {}
    /\ mapped = [p \in Pages |-> NoMapping]
    /\ last = NoOp
    /\ bytes = <<>>
    /\ boot = NoInfo
    /\ SyncIdle
    /\ DevIdle

\* create_boot_info(&mut frame_allocator, &mut mappings, &framebuffer,
\* memory_map)
CreateBootInfo ==
    /\ phase = "boot" /\ panic = NoPanic /\ level_4 \in Frames
    /\ \E fb \in TestFramebuffers :
        LET s == create_boot_info(St, fb.addr, fb.len, memory_map)
        IN /\ Commit(s, [op |-> "create_boot_info", pre_alloc |-> allocator])
           /\ boot' = s.info
    /\ phase' = "info"
    /\ UNCHANGED nops

\* The MemRegions of the boot information.
BootRegions == SubSeq(boot.array, 1, boot.num_regions)

\* PhysFrameAllocator::new(boot_info.mem_regions)
KernelNew ==
    /\ phase = "info" /\ panic = NoPanic
    /\ Commit([PhysFrameAllocator_new(St, BootRegions) EXCEPT
                    !.returned = <<>>,
                    !.mapped = [p \in Pages |-> NoMapping]],
              [op |-> "phys_new", regions |-> BootRegions])
    /\ phase' = "frames"
    /\ UNCHANGED <<nops, boot>>

\* allocator.alloc_frame(): `returned` lists the frames handed out and not
\* freed since.
PhysAllocFrame ==
    /\ phase = "frames" /\ panic = NoPanic
    /\ LET s == phys_alloc_frame(St)
       IN Commit([s EXCEPT !.returned =
                        IF s.some THEN Append(@, s.ret) ELSE @],
                 [op |-> "phys_alloc_frame", pre_phys |-> phys,
                  pre_returned |-> returned, some |-> s.some,
                  ret |-> s.ret])
    /\ UNCHANGED <<phase, nops, boot>>

\* The call before was alloc_frame() and returned Some(frame).
JustAllocated(frame) ==
    last.op = "phys_alloc_frame" /\ last.some /\ last.ret = frame

\* allocator.free_frame(frame) for the first or the last frame handed out;
\* the record keeps the allocator of before the alloc_frame() call when the
\* frame comes from the call before.
PhysFreeFrame ==
    /\ phase = "frames" /\ panic = NoPanic /\ nops < MaxOps
    /\ returned # <<>>
    /\ \E i \in {1, Len(returned)}, checks \in BOOLEAN :
        Commit([phys_free_frame(Build(checks), returned[i]) EXCEPT
                    !.returned = SelectSeq(@, LAMBDA f : f # returned[i])],
               [op |-> "phys_free_frame", frame |-> returned[i],
                pre_phys |-> phys,
                after_alloc |-> JustAllocated(returned[i]),
                alloc_pre_phys |-> IF JustAllocated(returned[i])
                                   THEN last.pre_phys ELSE phys])
    /\ nops' = nops + 1
    /\ UNCHANGED <<phase, boot>>

NextInfo ==
    \/ NewMappings
    \/ CreateBootInfo
    \/ KernelNew
    \/ PhysAllocFrame
    \/ PhysFreeFrame

SpecInfo == InitInfo /\ [][NextInfo]_vars

\* Frames of the managed range to free: the lowest and the highest frame
\* and the lowest Free frame.
FreeTargets ==
    {0, phys.range_end - 1, first_free_frame(phys.bitmap, 0, phys.range_end)}
        \cap (0 .. phys.range_end - 1)

\* allocator.free_frame(frame) for a frame of the managed range, handed
\* out or not.
PhysFreeAnyFrame ==
    /\ phase = "frames" /\ panic = NoPanic /\ nops < MaxOps
    /\ \E frame \in FreeTargets, checks \in BOOLEAN :
        Commit([phys_free_frame(Build(checks), frame) EXCEPT
                    !.returned = SelectSeq(@, LAMBDA f : f # frame)],
               [op |-> "phys_free_any_frame", frame |-> frame,
                pre_phys |-> phys])
    /\ nops' = nops + 1
    /\ UNCHANGED <<phase, boot>>

NextFrames == NextInfo \/ PhysFreeAnyFrame

SpecFrames == InitInfo /\ [][NextFrames]_vars


(***************************************************************************)
(* The kernel heap (kernel/src/kmem/ll_heap/mod.rs)                        *)
(*                                                                         *)
(* The heap is a record: the page window, free_head (0 for None), the      *)
(* words of memory written so far (address -> field), the panic that       *)
(* stopped the code, the pointer returned, and the history of the calls.   *)
(* usize is the u64 of the address model.                                  *)
(***************************************************************************)

\* FreeHeader {prev, next, size} and AllocHeader {start, end}: fields of one
\* word each.
size_of_usize == 8
size_of_FreeHeader == 24
align_of_FreeHeader == 8
size_of_AllocHeader == 16
align_of_AllocHeader == 8

ALLOC_HEADER_ALIGN == align_of_AllocHeader
ALLOC_HEADER_SIZE == size_of_AllocHeader
FREE_HEADER_ALIGN == align_of_FreeHeader
\* line 32: const FREE_HEADER_SIZE: usize = align_of::<FreeHeader>();
FREE_HEADER_SIZE == align_of_FreeHeader


\* Wrapping usize arithmetic and the tests for its overflow.
wrapping_add(a, b) == u64(a + b)
wrapping_sub(a, b) == u64(a - b)
add_overflows(a, b) == a + b >= U64

\* is_aligned(addr, align) and align_up(addr, align) on u64
is_aligned(addr, align) == align_down(addr, align) = addr
align_up_overflows(addr, align) ==
    ~is_aligned(addr, align) /\ add_overflows(align_down(addr, align), align)
wrapping_align_up(addr, align) == u64(align_up(addr, align))

\* The window [pages.first().base_u64(), pages.end().base_u64())
heap_first(h) == VirtPage_base_u64(h.pages.start)
heap_end(h) == VirtPage_base_u64(h.pages.end)
InWindow(h, addr) == heap_first(h) <= addr /\ addr < heap_end(h)

\* ptr::write of the words of a header at dst.  A word outside the window
\* is outside the memory the heap owns: the write faults or lands there.
write_word(words, addr, v) ==
    [a \in DOMAIN words \cup {addr} |-> IF a = addr THEN v ELSE words[a]]
RECURSIVE write_words(_, _, _)
write_words(words, dst, fields) ==
    IF fields = <<>> THEN words
    ELSE write_words(write_word(words, dst, Head(fields)),
                     dst + size_of_usize, Tail(fields))
WordsOf(dst, n) == {dst + size_of_usize * i : i \in 0 .. n - 1}
ptr_write(h, dst, fields) ==
    IF h.fault /\ \E a \in WordsOf(dst, Len(fields)) : ~InWindow(h, u64(a))
    THEN Panic(h, "page fault")
    ELSE [h EXCEPT !.words = write_words(@, dst, fields)]

\* The fields of the two headers.
FreeHeader(prev, next, size) ==
    <<<<"prev", prev>>, <<"next", next>>, <<"size", size>>>>
AllocHeader(start, end) == <<<<"start", start>>, <<"end", end>>>>

\* handle.data.size: the third word of the header at offset; a word that
\* holds no size is read as whatever is there.
header_size(h, offset) ==
    IF offset + 2 * size_of_usize \in DOMAIN h.words
        /\ h.words[offset + 2 * size_of_usize][1] = "size"
    THEN h.words[offset + 2 * size_of_usize][2]
    ELSE h.junk

\* KernelHeap::write_free_header
write_free_header(h, header, offset) ==
    IF h.panic # NoPanic THEN h
    ELSE IF ~is_aligned(offset, align_of_FreeHeader)
    THEN Panic(h, "assertion failed: is_aligned(offset, align_of FreeHeader)")
    ELSE IF offset < heap_first(h)
    THEN Panic(h, "assertion failed: offset >= pages.first().base_u64()")
    ELSE IF add_overflows(offset, header[3][2]) /\ h.checks
    THEN Panic(h, "attempt to add with overflow")
    ELSE IF wrapping_add(offset, header[3][2]) > heap_end(h)
    THEN Panic(h, "assertion failed: offset + size <= pages.end().base_u64()")
    ELSE [ptr_write(h, offset, header) EXCEPT
            !.fhdrs = Append(@, [offset |-> offset, size |-> header[3][2]])]

\* write_alloc_header recording where the header lies.
write_alloc_header_RecordsHeader(h, result) ==
    ptr_write(h, result.header_start,
              AllocHeader(result.header_start, result.used_end))

\* KernelHeap::write_alloc_header
write_alloc_header(h, result) ==
    ptr_write(h, result.header_start,
              AllocHeader(result.used_start, result.used_end))

\* AllocResult and the None of Option<AllocResult>
AllocResult(header_start, used_start, alloc_start, used_end, remaining,
            remaining_start, remaining_end) ==
    [panic |-> NoPanic, some |-> TRUE, header_start |-> header_start,
     used_start |-> used_start, alloc_start |-> alloc_start,
     used_end |-> used_end, remaining |-> remaining,
     remaining_start |-> remaining_start, remaining_end |-> remaining_end]
NoResult ==
    [panic |-> NoPanic, some |-> FALSE, header_start |-> 0, used_start |-> 0,
     alloc_start |-> 0, used_end |-> 0, remaining |-> FALSE,
     remaining_start |-> 0, remaining_end |-> 0]

\* try_alloc_from_free_block, lines 145-175
try_alloc_split(free_start, free_end, alloc_start, alloc_end,
                header_start) ==
    IF free_end < alloc_end THEN NoResult
    ELSE IF free_end - alloc_end < FREE_HEADER_SIZE
    THEN AllocResult(header_start, free_start, alloc_start, free_end,
                     FALSE, alloc_end, free_end)
    ELSE AllocResult(header_start, free_start, alloc_start, alloc_end,
                     TRUE, alloc_end, free_end)

\* try_alloc_from_free_block, lines 134-143, for alloc_start without its
\* alignment.
try_alloc_bounds_Unaligned(free_start, free_end, size, align, checks) ==
    try_alloc_split(
        free_start, free_end,
        wrapping_add(free_start, ALLOC_HEADER_SIZE),
        wrapping_align_up(
            wrapping_add(wrapping_add(free_start, ALLOC_HEADER_SIZE), size),
            FREE_HEADER_ALIGN),
        free_start)

\* try_alloc_from_free_block, lines 134-143: alloc_start, alloc_end and
\* header_start; the additions panic on overflow in a build with overflow
\* checks and wrap in a build without.
try_alloc_bounds(free_start, free_end, size, align, checks) ==
    LET start_unaligned == wrapping_add(free_start, ALLOC_HEADER_SIZE)
        alloc_start == wrapping_align_up(start_unaligned, align)
        end_unaligned == wrapping_add(alloc_start, size)
        alloc_end == wrapping_align_up(end_unaligned, FREE_HEADER_ALIGN)
    IN  IF checks /\ (\/ add_overflows(free_start, ALLOC_HEADER_SIZE)
                      \/ align_up_overflows(start_unaligned, align)
                      \/ add_overflows(alloc_start, size)
                      \/ align_up_overflows(end_unaligned, FREE_HEADER_ALIGN))
        THEN Fail("attempt to add with overflow")
        ELSE IF checks /\ alloc_start < size_of_AllocHeader
        THEN Fail("attempt to subtract with overflow")
        ELSE IF ~is_aligned(wrapping_sub(alloc_start, size_of_AllocHeader),
                            align_of_AllocHeader)
        THEN Fail("assertion failed: is_aligned(header_start, ..)")
        ELSE try_alloc_split(
                free_start, free_end, alloc_start, alloc_end,
                wrapping_sub(alloc_start, size_of_AllocHeader))

\* KernelHeap::try_alloc_from_free_block on the block of the header at
\* offset: handle.range_exclusive(), then the bounds.
try_alloc_from_free_block(h, offset, size, align) ==
    IF add_overflows(offset, header_size(h, offset)) /\ h.checks
    THEN Fail("attempt to add with overflow")
    ELSE try_alloc_bounds(offset,
                          wrapping_add(offset, header_size(h, offset)),
                          size, align, h.checks)

\* NonNull::new(ptr): None (0) for the null pointer
NonNull_new(ptr) == ptr

\* alloc, lines 215-229: the FreeHeader of the remaining space, free_head
\* and the pointer returned.
alloc_remaining(h, result, layout) ==
    IF h.panic # NoPanic THEN h
    ELSE IF result.remaining
    THEN LET w == write_free_header(
                    h, FreeHeader(0, 0, result.remaining_end
                                            - result.remaining_start),
                    result.remaining_start)
         IN IF w.panic # NoPanic THEN w
            ELSE [w EXCEPT !.free_head = NonNull_new(result.remaining_start),
                           !.ret = result.alloc_start]
    ELSE [h EXCEPT !.free_head = 0, !.ret = result.alloc_start]

\* alloc, lines 206-213
alloc_from(h, result, layout) ==
    IF result.panic # NoPanic THEN Panic(h, result.panic)
    ELSE IF ~result.some THEN [h EXCEPT !.ret = 0]
    ELSE alloc_remaining(write_alloc_header(h, result), result, layout)

\* KernelHeap::get_free_header_mut: the two assertions.
get_free_header_mut(h, ptr) ==
    IF ptr < heap_first(h)
    THEN Panic(h, "assertion failed: offset >= pages.first().base_u64()")
    ELSE IF ptr >= heap_end(h)
    THEN Panic(h, "assertion failed: offset < pages.end().base_u64()")
    ELSE h

\* KernelHeap::alloc
KernelHeap_alloc(h, layout) ==
    IF h.panic # NoPanic THEN h
    ELSE IF h.free_head = 0
    THEN Panic(h, "called Option::unwrap() on a None value")
    ELSE IF get_free_header_mut(h, h.free_head).panic # NoPanic
    THEN get_free_header_mut(h, h.free_head)
    ELSE alloc_from(h,
                    try_alloc_from_free_block(h, h.free_head, layout.size,
                                              layout.align),
                    layout)

\* KernelHeap::free: the body is empty.
KernelHeap_free(h, ptr, layout) == h

\* KernelHeap::new(pages)
KernelHeap_new(pages) ==
    LET h == [pages |-> pages, free_head |-> 0, words |-> <<>>,
              panic |-> NoPanic, ret |-> 0, checks |-> TRUE,
              fault |-> FALSE, junk |-> 0, fhdrs |-> <<>>,
              allocs |-> <<>>, freed |-> <<>>, last |-> NoOp]
        w == write_free_header(h, FreeHeader(0, 0, len_bytes(pages)),
                               VirtPage_base_u64(pages.start))
    IN IF w.panic # NoPanic THEN w
       ELSE IF NonNull_new(VirtPage_base_u64(pages.start)) = 0
       THEN Panic(w, "heap initial head should be non-null")
       ELSE [w EXCEPT
                !.free_head = NonNull_new(VirtPage_base_u64(pages.start))]

\* The free blocks of the list: from free_head along the next fields.
RECURSIVE FreeBlocksFrom(_, _, _)
FreeBlocksFrom(h, offset, fuel) ==
    IF offset = 0 \/ fuel = 0 \/ offset + size_of_usize \notin DOMAIN h.words
    THEN {}
    ELSE {[start |-> offset, end |-> offset + header_size(h, offset)]}
            \cup FreeBlocksFrom(h, h.words[offset + size_of_usize][2],
                                fuel - 1)
FreeBlocks(h) == FreeBlocksFrom(h, h.free_head, Len(h.fhdrs))

(***************************************************************************)
(* The heap as a state machine                                             *)
(***************************************************************************)

MaxAllocs == 3

\* The window starts on the page after the stack: two neighbouring pages,
\* one of them aligned to two pages.
HeapStarts == {NumPages - 8, NumPages - 7}
WindowBytes == HeapPages * PAGE_SIZE

\* Layouts: the sizes of a byte, a page, the window less the header and a
\* tail of 0, 8, 24 bytes, the window, and a size near isize::MAX;
\* power-of-two alignments.
HugeSize == align_down(VirtSpan - 1, 2 * PAGE_SIZE)
LayoutSizes ==
    {1, PAGE_SIZE, WindowBytes, HugeSize}
        \cup {WindowBytes - ALLOC_HEADER_SIZE - t : t \in {0, 8, 24}}
LayoutAligns == {16, 2 * PAGE_SIZE}
Layouts == [size : LayoutSizes, align : LayoutAligns]

\* What a read of handle.data.size can find where no size was written.
HeadReadable ==
    /\ heap.free_head + 2 * size_of_usize \in DOMAIN heap.words
    /\ heap.words[heap.free_head + 2 * size_of_usize][1] = "size"
JunkSizes == IF HeadReadable THEN {0} ELSE {0, PAGE_SIZE}

InitHeap ==
    /\ \E start \in HeapStarts :
        heap = KernelHeap_new(range_length(start, HeapPages))
    /\ pic = <<>> /\ idt = <<>> /\ probe = <<>>
    /\ SyncIdle
    /\ MemIdle

\* The heap a call runs on: the build and what lies outside the window.
HeapEnv(checks, fault, junk) ==
    [heap EXCEPT !.checks = checks, !.fault = fault, !.junk = junk]

\* heap.alloc(layout); a pointer returned is kept with its layout and the
\* block it was carved from, and the call with the free list it found.
HeapAlloc ==
    /\ heap.panic = NoPanic
    /\ Len(heap.allocs) < MaxAllocs
    /\ \E layout \in Layouts, checks, fault \in BOOLEAN, junk \in JunkSizes :
        LET h == KernelHeap_alloc(HeapEnv(checks, fault, junk), layout)
            block == [start |-> heap.free_head,
                      end |-> heap.free_head
                                + header_size(heap, heap.free_head)]
        IN heap' = [h EXCEPT
                !.allocs = IF h.panic = NoPanic /\ h.ret # 0
                           THEN Append(@, [ptr |-> h.ret, layout |-> layout,
                                           block |-> block])
                           ELSE @,
                !.last = [op |-> "alloc", layout |-> layout,
                          pre_head |-> heap.free_head,
                          pre_words |-> heap.words]]
    /\ UNCHANGED <<syncVars, memVars, pic, idt, probe>>

\* heap.free(ptr, layout) for the pointer the last successful alloc
\* returned, with its layout.
HeapFree ==
    /\ heap.panic = NoPanic
    /\ \E i \in {Len(heap.allocs)} \ {0} :
        /\ \A j \in 1 .. Len(heap.freed) : heap.freed[j] # heap.allocs[i]
        /\ heap' = [KernelHeap_free(heap, heap.allocs[i].ptr,
                                    heap.allocs[i].layout) EXCEPT
                        !.freed = Append(@, heap.allocs[i]),
                        !.last = [op |-> "free", alloc |-> heap.allocs[i]]]
    /\ UNCHANGED <<syncVars, memVars, pic, idt, probe>>

NextHeap == HeapAlloc \/ HeapFree

SpecHeap == InitHeap /\ [][NextHeap]_vars

(***************************************************************************)
(* The interrupt descriptor table (kernel/src/arch/interrupts/idt.rs)      *)
(*                                                                         *)
(* idt is a record: the table as the entries of the struct Idt in the      *)
(* order of its fields (slot s lies at byte offset LENGTH_BYTES * s), the  *)
(* IDTR that lidt loaded, the panic that stopped the code, and the last    *)
(* call.                                                                   *)
(***************************************************************************)

NUM_ENTRIES == 255
LAST_EXCEPTION == 20
USER_DEFINED_START == 32
NUM_RESERVED_EXCEPTIONS == USER_DEFINED_START - LAST_EXCEPTION
NUM_USER_DEFINED == NUM_ENTRIES - USER_DEFINED_START
LENGTH_BYTES == 16
GateType_Interrupt == 14
KERNEL_CODE_SEGMENT_IDX == 1

\* Gdt::get_kernel_code_selector: the selector of the kernel code segment,
\* index << 3 with table and privilege bits 0.
Gdt_get_kernel_code_selector == KERNEL_CODE_SEGMENT_IDX * 8

\* IdtEntryBase::default(): value 0
IdtEntry_default ==
    [offset_low |-> 0, selector |-> 0, gate_type |-> 0,
     privilege_level |-> 0, present |-> FALSE, offset_high |-> 0]

\* IdtEntryBase::set_address
set_address(entry, address) ==
    [entry EXCEPT !.offset_low = address % (2 ^ 16),
                  !.offset_high = address \div (2 ^ 16)]

\* IdtEntryBase::set_handler
IdtEntryBase_set_handler(entry, address) ==
    [set_address(entry, address) EXCEPT
        !.gate_type = GateType_Interrupt,
        !.selector = Gdt_get_kernel_code_selector,
        !.present = TRUE]

\* The slots of the fields of the struct: div_zero first, user_defined[i]
\* behind the LAST_EXCEPTION named entries and unused_exceptions.
div_zero_slot == 0
user_defined_slot(i) == LAST_EXCEPTION + NUM_RESERVED_EXCEPTIONS + i

\* Idt::default()
Idt_default ==
    [table |-> [s \in 0 .. NUM_ENTRIES - 1 |-> IdtEntry_default],
     idtr |-> [loaded |-> FALSE, limit |-> 0],
     panic |-> NoPanic, calls |-> 0, last |-> NoOp]

\* Idt::activate: limit.try_into().unwrap() and lidt
Idt_activate(t) ==
    IF NUM_ENTRIES * LENGTH_BYTES >= 2 ^ 16
    THEN Panic(t, "attempt to multiply with overflow")
    ELSE [t EXCEPT !.idtr = [loaded |-> TRUE,
                             limit |-> NUM_ENTRIES * LENGTH_BYTES - 1]]

\* initialize_idt
initialize_idt_table(t, div_handler) ==
    Idt_activate([t EXCEPT !.table[div_zero_slot] =
                    IdtEntryBase_set_handler(IdtEntry_default, div_handler)])

\* add_user_defined_handler(index, handler)
add_user_defined_handler_entry(t, index, handler) ==
    IF t.panic # NoPanic THEN t
    ELSE IF index < USER_DEFINED_START
    THEN Panic(t, "assertion failed: index >= Idt::USER_DEFINED_START")
    ELSE IF index - USER_DEFINED_START >= NUM_USER_DEFINED
    THEN Panic(t, "index out of bounds")
    ELSE [t EXCEPT !.table[user_defined_slot(index - USER_DEFINED_START)] =
            IdtEntryBase_set_handler(IdtEntry_default, handler)]

(***************************************************************************)
(* The two cascaded 8259 PICs (kernel/src/arch/interrupts/pic.rs)          *)
(*                                                                         *)
(* pic is a record: the registers of the two chips (mask register imr,     *)
(* in-service register isr, the initialisation word the chip expects       *)
(* next), the port writes of the last call, and the last call.             *)
(***************************************************************************)

NUM_INTERRUPTS == 8
CMD_INIT == 17
CMD_INIT_ICW4 == 1
SLAVE_IRQ_LINE == 2
CMD_MASTER == 2 ^ SLAVE_IRQ_LINE
CMD_SLAVE == SLAVE_IRQ_LINE
CMD_ICW4 == 1
CMD_EOI == 32
WAIT_PORT == 128
MASTER_PORT == 32
SLAVE_PORT == 160
MASTER_INTERRUPT_OFFSET == USER_DEFINED_START
SLAVE_INTERRUPT_OFFSET == MASTER_INTERRUPT_OFFSET + NUM_INTERRUPTS
TIMER_INTERRUPT == 0
KEYBOARD_INTERRUPT == 1

\* Pic::new(ty, port_base, interrupt_offset) and CascadedPics::new()
Pic_new(ty, port_base, interrupt_offset) ==
    [command_port |-> port_base, data_port |-> port_base + 1,
     interrupt_offset |-> interrupt_offset, ty |-> ty]
CascadedPics_master == Pic_new("Master", MASTER_PORT, MASTER_INTERRUPT_OFFSET)
CascadedPics_slave == Pic_new("Slave", SLAVE_PORT, SLAVE_INTERRUPT_OFFSET)

\* Bit i of a byte, and the lowest bit set (the line of highest priority).
bit(v, i) == (v \div (2 ^ i)) % 2
lowest_set(v) == CHOOSE i \in 0 .. 7 : bit(v, i) = 1 /\ \A j \in 0 .. i - 1 :
                                                            bit(v, j) = 0

\* The 8259A: a command-port write with bit 4 set is ICW1 and starts the
\* initialisation (the mask register is cleared, ICW2 to ICW4 follow on the
\* data port); the command CMD_EOI ends the in-service line of highest
\* priority; a data-port write outside the initialisation sets the mask
\* register, and a data-port read returns it.
chip_command(c, v) ==
    IF bit(v, 4) = 1
    THEN [c EXCEPT !.imr = 0, !.expect = "icw2", !.icw4 = bit(v, 0) = 1]
    ELSE IF v = CMD_EOI /\ c.isr # 0
    THEN [c EXCEPT !.isr = byte_and_not(@, 2 ^ lowest_set(@))]
    ELSE c
chip_data(c, v) ==
    IF c.expect = "icw2"
    THEN [c EXCEPT !.offset = v - (v % 8), !.expect = "icw3"]
    ELSE IF c.expect = "icw3"
    THEN [c EXCEPT !.cascade = v,
                   !.expect = IF c.icw4 THEN "icw4" ELSE "ocw"]
    ELSE IF c.expect = "icw4" THEN [c EXCEPT !.expect = "ocw"]
    ELSE [c EXCEPT !.imr = v]

\* Port::write and Port::read on the ports of the machine
Port_write(d, port, value) ==
    [d EXCEPT
        !.master = IF port = MASTER_PORT THEN chip_command(@, value)
                   ELSE IF port = MASTER_PORT + 1 THEN chip_data(@, value)
                   ELSE @,
        !.slave = IF port = SLAVE_PORT THEN chip_command(@, value)
                  ELSE IF port = SLAVE_PORT + 1 THEN chip_data(@, value)
                  ELSE @,
        !.writes = Append(@, <<port, value>>)]
Port_read(d, port) ==
    IF port = MASTER_PORT + 1 THEN d.master.imr
    ELSE IF port = SLAVE_PORT + 1 THEN d.slave.imr
    ELSE 0

\* Pic::io_port_wait
io_port_wait(d) == Port_write(d, WAIT_PORT, 0)

\* Pic::initialize, lines 107-124, with the masks saved in line 102.
Pic_initialize_sequence(d, p, irq_masks) ==
    Port_write(
        io_port_wait(Port_write(
            io_port_wait(Port_write(
                io_port_wait(Port_write(
                    io_port_wait(Port_write(d, p.command_port,
                                            byte_or(CMD_INIT,
                                                    CMD_INIT_ICW4))),
                    p.data_port, p.interrupt_offset)),
                p.data_port,
                IF p.ty = "Master" THEN CMD_MASTER ELSE CMD_SLAVE)),
            p.data_port, CMD_ICW4)),
        p.data_port, irq_masks)

\* Pic::initialize
Pic_initialize(d, p) ==
    Pic_initialize_sequence(d, p, Port_read(d, p.data_port))

\* Pic::enable_interrupt
Pic_enable_interrupt(d, p, index) ==
    Port_write(d, p.data_port,
               byte_and_not(Port_read(d, p.data_port), 2 ^ index))

\* Pic::signal_eoi
Pic_signal_eoi(d, p) == Port_write(d, p.command_port, CMD_EOI)

\* IRQCode::source with IRQ8 on the master.
IRQCode_source_EightIsMaster(irq) ==
    IF irq <= 8 THEN "Master" ELSE "Slave"

\* IRQCode::source, IRQCode::index, IRQCode::local_index
IRQCode_source(irq) == IF irq <= 7 THEN "Master" ELSE "Slave"
IRQCode_index(irq) == irq
IRQCode_local_index(irq) ==
    IF IRQCode_source(irq) = "Master" THEN IRQCode_index(irq)
    ELSE IRQCode_index(irq) - NUM_INTERRUPTS

\* get_idt_offset adding the master's offset for every line.
CascadedPics_get_idt_offset_MasterOnly(irq) ==
    IRQCode_local_index(irq) + CascadedPics_master.interrupt_offset

\* CascadedPics::get_idt_offset
CascadedPics_get_idt_offset(irq) ==
    IF IRQCode_source(irq) = "Master"
    THEN IRQCode_local_index(irq) + CascadedPics_master.interrupt_offset
    ELSE IRQCode_local_index(irq) + CascadedPics_slave.interrupt_offset

\* CascadedPics::initialize with the slave first.
CascadedPics_initialize_SlaveFirst(d) ==
    Pic_initialize(Pic_initialize(d, CascadedPics_slave), CascadedPics_master)

\* CascadedPics::initialize, enable_interrupt, signal_eoi
CascadedPics_initialize(d) ==
    Pic_initialize(Pic_initialize(d, CascadedPics_master), CascadedPics_slave)
CascadedPics_enable_interrupt(d, irq) ==
    IF IRQCode_source(irq) = "Master"
    THEN Pic_enable_interrupt(d, CascadedPics_master,
                              IRQCode_local_index(irq))
    ELSE Pic_enable_interrupt(d, CascadedPics_slave,
                              IRQCode_local_index(irq))
CascadedPics_signal_eoi(d, irq) ==
    Pic_signal_eoi(
        IF IRQCode_source(irq) = "Slave"
        THEN Pic_signal_eoi(d, CascadedPics_slave) ELSE d,
        CascadedPics_master)

\* initialize_pic, lines 215-219: the PICs
initialize_pic_masks(d) ==
    CascadedPics_enable_interrupt(
        CascadedPics_enable_interrupt(CascadedPics_initialize(d),
                                      KEYBOARD_INTERRUPT),
        TIMER_INTERRUPT)

\* initialize_pic, lines 222-225: the two handlers
initialize_pic_handlers(t, keyboard_handler_addr, timer_handler_addr) ==
    add_user_defined_handler_entry(
        add_user_defined_handler_entry(
            t, CascadedPics_get_idt_offset(KEYBOARD_INTERRUPT),
            keyboard_handler_addr),
        CascadedPics_get_idt_offset(TIMER_INTERRUPT), timer_handler_addr)

(***************************************************************************)
(* The interrupt table and the PICs as state machines                      *)
(***************************************************************************)

\* Addresses of handler functions, with bits above and below bit 16.
HandlerAddrs == {1122867, 2097160}
DivHandlerAddr == 1050384
KeyboardHandlerAddr == 1052672
TimerHandlerAddr == 1052928

\* Vectors: exceptions, the first and the last user-defined ones, the one
\* behind them.
TestVectors == {0, USER_DEFINED_START - 1, USER_DEFINED_START,
                USER_DEFINED_START + NUM_INTERRUPTS,
                NUM_ENTRIES - 1, NUM_ENTRIES, NUM_ENTRIES + 1}

\* The mask registers as the firmware leaves them.
MasterMasks == {0, 184, 251, 252, 255}
SlaveMasks == {0, 143, 255}
IRQCodes == 0 .. 15

Chip(imr) ==
    [imr |-> imr, isr |-> 0, expect |-> "ocw", icw4 |-> FALSE, offset |-> 8,
     cascade |-> 0]

IrqIdle == heap = <<>> /\ probe = <<>> /\ SyncIdle /\ MemIdle

InitIdt ==
    /\ idt = Idt_default
    /\ pic = <<>>
    /\ IrqIdle

\* initialize_idt()
InitializeIdt ==
    /\ idt.panic = NoPanic /\ ~idt.idtr.loaded
    /\ idt' = [initialize_idt_table(idt, DivHandlerAddr) EXCEPT
                    !.last = [op |-> "initialize_idt"]]
    /\ UNCHANGED <<syncVars, memVars, heap, pic, probe>>

\* add_user_defined_handler(index, handler)
AddUserDefinedHandler ==
    /\ idt.panic = NoPanic /\ idt.calls < MaxOps
    /\ \E index \in TestVectors, handler \in HandlerAddrs :
        idt' = [add_user_defined_handler_entry(idt, index, handler) EXCEPT
                    !.calls = @ + 1,
                    !.last = [op |-> "add_user_defined_handler",
                              index |-> index, handler |-> handler,
                              pre_table |-> idt.table]]
    /\ UNCHANGED <<syncVars, memVars, heap, pic, probe>>

NextIdt == InitializeIdt \/ AddUserDefinedHandler

SpecIdt == InitIdt /\ [][NextIdt]_vars

InitPic ==
    /\ \E m \in MasterMasks, s \in SlaveMasks :
        pic = [master |-> Chip(m), slave |-> Chip(s), writes |-> <<>>,
               done |-> FALSE, initial |-> [master |-> m, slave |-> s],
               last |-> NoOp]
    /\ idt = Idt_default
    /\ IrqIdle

\* initialize_pic()
InitializePic ==
    /\ ~pic.done /\ idt.panic = NoPanic
    /\ pic' = [initialize_pic_masks([pic EXCEPT !.writes = <<>>]) EXCEPT
                    !.done = TRUE, !.last = [op |-> "initialize_pic"]]
    /\ idt' = [initialize_pic_handlers(idt, KeyboardHandlerAddr,
                                       TimerHandlerAddr) EXCEPT
                    !.last = [op |-> "initialize_pic"]]
    /\ UNCHANGED <<syncVars, memVars, heap, probe>>

\* A device raises a line that is not masked and the CPU takes the
\* interrupt: the line is in service (a line of the slave through line
\* SLAVE_IRQ_LINE of the master).  A handler runs to its end before the
\* next interrupt is taken.
RaiseIrq ==
    /\ pic.done /\ pic.master.isr = 0 /\ pic.slave.isr = 0
    /\ \E irq \in IRQCodes :
        /\ IF irq < NUM_INTERRUPTS THEN bit(pic.master.imr, irq) = 0
           ELSE /\ bit(pic.slave.imr, irq - NUM_INTERRUPTS) = 0
                /\ bit(pic.master.imr, SLAVE_IRQ_LINE) = 0
        /\ pic' = [pic EXCEPT
                !.master.isr = IF irq < NUM_INTERRUPTS THEN 2 ^ irq
                               ELSE 2 ^ SLAVE_IRQ_LINE,
                !.slave.isr = IF irq < NUM_INTERRUPTS THEN 0
                              ELSE 2 ^ (irq - NUM_INTERRUPTS),
                !.last = [op |-> "irq", irq |-> irq]]
    /\ UNCHANGED <<syncVars, memVars, heap, idt, probe>>

\* PIC.lock().signal_eoi(irq)
SignalEoiCall ==
    /\ pic.done
    /\ \E irq \in IRQCodes :
        pic' = [CascadedPics_signal_eoi([pic EXCEPT !.writes = <<>>], irq)
                    EXCEPT !.last = [op |-> "signal_eoi", irq |-> irq,
                                     pre_master |-> pic.master,
                                     pre_slave |-> pic.slave]]
    /\ UNCHANGED <<syncVars, memVars, heap, idt, probe>>

\* PIC.lock().get_idt_offset(irq)
GetIdtOffset ==
    /\ pic.done
    /\ \E irq \in IRQCodes :
        pic' = [pic EXCEPT
                !.last = [op |-> "get_idt_offset", irq |-> irq,
                          ret |-> CascadedPics_get_idt_offset(irq)]]
    /\ UNCHANGED <<syncVars, memVars, heap, idt, probe>>

NextPic == InitializePic \/ RaiseIrq \/ SignalEoiCall \/ GetIdtOffset

SpecPic == InitPic /\ [][NextPic]_vars

(***************************************************************************)
(* bootloader/src/addr.rs: VirtAddr::new at the full width of a u64.  A    *)
(* u64 is the function from its 64 bit positions to its bits; the test     *)
(* addresses are written as four 16-bit limbs, most significant first.     *)
(***************************************************************************)

\* common/src/lib.rs
VIRTADDR_SIZE == 48

U64_BITS == 64
BitPos == 0 .. (U64_BITS - 1)
LimbBits == U64_BITS \div 4
LimbBase == 2 ^ LimbBits

\* A literal below 2^31 as a u64.
bits_of(n) ==
    [i \in BitPos |-> IF i < 31 THEN (n \div (2 ^ i)) % 2 = 1 ELSE FALSE]

\* The u64 of four limbs and the limbs of a u64.
from_limbs(l) ==
    [i \in BitPos |->
        (l[4 - (i \div LimbBits)] \div (2 ^ (i % LimbBits))) % 2 = 1]

RECURSIVE limb_value(_, _, _)
limb_value(a, k, n) ==
    IF n = 0 THEN 0
    ELSE 2 * limb_value(a, k + 1, n - 1) + (IF a[k] THEN 1 ELSE 0)

to_limbs(a) ==
    [j \in 1 .. 4 |-> limb_value(a, (4 - j) * LimbBits, LimbBits)]

\* <<, >>, & and `> 0` on u64 values.
u64_shl(a, n) == [i \in BitPos |-> i >= n /\ a[i - n]]
u64_shr(a, n) == [i \in BitPos |-> i + n < U64_BITS /\ a[i + n]]
u64_and(a, b) == [i \in BitPos |-> a[i] /\ b[i]]
u64_gt_zero(a) == \E i \in BitPos : a[i]

\* struct VirtAddr(u64) and Address::as_u64 for VirtAddr
VirtAddr(addr) == [f0 |-> addr]
VirtAddr_as_u64(self) == self.f0

\* VirtAddr::new: the bit below VIRTADDR_SIZE
upper_bit(addr) ==
    u64_gt_zero(u64_and(addr, u64_shl(bits_of(1), VIRTADDR_SIZE - 1)))

\* VirtAddr::new: the value the bits from VIRTADDR_SIZE up must have
required_sign_extension_Zero(upper) == bits_of(0)

required_sign_extension(upper) ==
    IF upper THEN bits_of(2 ^ (U64_BITS - VIRTADDR_SIZE) - 1) ELSE bits_of(0)

\* <VirtAddr as Address>::new
VirtAddr_new(addr) ==
    LET sign_extension == u64_shr(addr, VIRTADDR_SIZE) IN
    IF sign_extension = required_sign_extension(upper_bit(addr))
    THEN Fine(VirtAddr(addr))
    ELSE Fail("Address was not a canonical virtual address!")

\* A u64 below 2^31 as a number.
RECURSIVE u64_low(_, _)
u64_low(a, n) ==
    IF n = 0 THEN 0 ELSE 2 * u64_low(u64_shr(a, 1), n - 1) + (IF a[0] THEN 1 ELSE 0)
as_number(a) == u64_low(a, 31)

\* impl VirtAddr: the sizes and the masks of the page-table indices
ENTRY_IDX_SIZE == 9
PAGE_OFFSET_SIZE == 12
PAGE_TABLE_IDX_MASK ==
    u64_shl(bits_of(2 ^ ENTRY_IDX_SIZE - 1), PAGE_OFFSET_SIZE)
PAGE_DIR_IDX_MASK == u64_shl(PAGE_TABLE_IDX_MASK, ENTRY_IDX_SIZE)
PAGE_DIR_PTR_IDX_MASK == u64_shl(PAGE_DIR_IDX_MASK, ENTRY_IDX_SIZE)
PAGE_MAP_L4_IDX_MASK == u64_shl(PAGE_DIR_PTR_IDX_MASK, ENTRY_IDX_SIZE)

\* VirtAddr::get_page_table_idx, get_page_dir_idx, get_page_dir_ptr_idx
VirtAddr_get_page_table_idx(self) ==
    as_number(u64_shr(u64_and(self.f0, PAGE_TABLE_IDX_MASK),
                      PAGE_OFFSET_SIZE))
VirtAddr_get_page_dir_idx(self) ==
    as_number(u64_shr(u64_and(self.f0, PAGE_DIR_IDX_MASK),
                      ENTRY_IDX_SIZE + PAGE_OFFSET_SIZE))
VirtAddr_get_page_dir_ptr_idx(self) ==
    as_number(u64_shr(u64_and(self.f0, PAGE_DIR_PTR_IDX_MASK),
                      ENTRY_IDX_SIZE * 2 + PAGE_OFFSET_SIZE))

\* get_page_map_l4_idx shifting before it masks.
VirtAddr_get_page_map_l4_idx_ShiftFirst(self) ==
    as_number(u64_and(u64_shr(self.f0,
                              ENTRY_IDX_SIZE * 3 + PAGE_OFFSET_SIZE),
                      PAGE_MAP_L4_IDX_MASK))

\* VirtAddr::get_page_map_l4_idx
VirtAddr_get_page_map_l4_idx(self) ==
    as_number(u64_shr(u64_and(self.f0, PAGE_MAP_L4_IDX_MASK),
                      ENTRY_IDX_SIZE * 3 + PAGE_OFFSET_SIZE))

\* The addresses VirtAddr::new is called with.
TopLimbs == {0, 1, 32767, 32768, 65534, 65535}
HighLimbs == {0, 32767, 32768, 33059, 65535}
MidLimbs == {0, 43981, 65535}
LowLimbs == {0, 4096, 22136, 65535}
TestAddrs ==
    {<<a, b, c, d>> : a \in TopLimbs, b \in HighLimbs, c \in MidLimbs,
                      d \in LowLimbs}

InitAddr == SyncIdle /\ MemIdle /\ DevIdle

\* let v = VirtAddr::new(addr);
VirtAddrNew ==
    /\ \E l \in TestAddrs :
        probe' = [op |-> "new", arg |-> l, ret |-> VirtAddr_new(from_limbs(l))]
    /\ UNCHANGED <<syncVars, memVars, heap, pic, idt>>

\* v.as_u64()
VirtAddrAsU64 ==
    /\ probe # <<>>
    /\ probe.op = "new"
    /\ probe.ret.panic = NoPanic
    /\ probe' = [op |-> "as_u64", arg |-> probe.arg,
                 ret |-> Fine(to_limbs(VirtAddr_as_u64(probe.ret.value)))]
    /\ UNCHANGED <<syncVars, memVars, heap, pic, idt>>

\* The four page-table indices of v
VirtAddrIndices ==
    /\ probe # <<>>
    /\ probe.op = "new"
    /\ probe.ret.panic = NoPanic
    /\ probe' = [op |-> "indices", arg |-> probe.arg,
                 ret |-> Fine(
                    [l4 |-> VirtAddr_get_page_map_l4_idx(probe.ret.value),
                     pdp |-> VirtAddr_get_page_dir_ptr_idx(probe.ret.value),
                     pd |-> VirtAddr_get_page_dir_idx(probe.ret.value),
                     pt |-> VirtAddr_get_page_table_idx(probe.ret.value)])]
    /\ UNCHANGED <<syncVars, memVars, heap, pic, idt>>

NextAddr == VirtAddrNew \/ VirtAddrAsU64 \/ VirtAddrIndices
SpecAddr == InitAddr /\ [][NextAddr]_vars

(***************************************************************************)
(* bootloader/src/addr.rs: align_down, align_up and is_aligned at the full *)
(* width of a u64.                                                         *)
(***************************************************************************)

\* !a, a + b with the carry out of bit 63, and a - b for a >= b.
u64_not(a) == [i \in BitPos |-> ~a[i]]
u64_carry(a, b, cin) ==
    LET c[i \in 0 .. U64_BITS] ==
            IF i = 0 THEN cin
            ELSE (a[i - 1] /\ b[i - 1]) \/ ((a[i - 1] \/ b[i - 1]) /\ c[i - 1])
    IN c
u64_sum(a, b, cin) ==
    LET c == u64_carry(a, b, cin)
    IN [i \in BitPos |-> (a[i] # b[i]) # c[i]]
u64_add_overflows(a, b) == u64_carry(a, b, FALSE)[U64_BITS]
u64_wrapping_add(a, b) == u64_sum(a, b, FALSE)
u64_wrapping_sub(a, b) == u64_sum(a, u64_not(b), TRUE)

\* u64::is_power_of_two
is_power_of_two(a) == Cardinality({i \in BitPos : a[i]}) = 1

\* align_down(addr, align)
align_down_u64(addr, align) ==
    IF ~is_power_of_two(align)
    THEN Fail("Cannot align to non power of two alignment")
    ELSE Fine(u64_and(addr, u64_not(u64_wrapping_sub(align, bits_of(1)))))

\* is_aligned(addr, align)
is_aligned_u64(addr, align) ==
    IF align_down_u64(addr, align).panic # NoPanic
    THEN align_down_u64(addr, align)
    ELSE Fine(align_down_u64(addr, align).value = addr)

\* align_up(addr, align); the addition panics on overflow in a build with
\* overflow checks and wraps in a build without.
align_up_u64(addr, align, checks) ==
    IF is_aligned_u64(addr, align).panic # NoPanic
    THEN is_aligned_u64(addr, align)
    ELSE IF is_aligned_u64(addr, align).value THEN Fine(addr)
    ELSE IF checks
            /\ u64_add_overflows(align_down_u64(addr, align).value, align)
    THEN Fail("attempt to add with overflow")
    ELSE Fine(u64_wrapping_add(align_down_u64(addr, align).value, align))

\* The addresses and alignments the functions are called with, as limbs:
\* addresses at both ends of the u64 range, aligned and not; alignments
\* that are powers of two up to 2^63, and 0, 3 and 12288, which are not.
AlignAddrs ==
    {<<a, b, c, d>> : a \in {0, 65535}, b \in {0, 65535},
                      c \in {0, 4660, 65535},
                      d \in {0, 1, 4095, 4096, 61440, 61441, 65535}}
AlignValues ==
    {<<0, 0, 0, d>> : d \in {0, 1, 2, 3, 8, 4096, 12288}}
        \cup {<<0, 0, 32, 0>>, <<32768, 0, 0, 0>>}

\* The result of a call with values as limbs.
InLimbs(r) == IF r.panic # NoPanic THEN r ELSE Fine(to_limbs(r.value))

InitAlign ==
    /\ \E a \in AlignAddrs, al \in AlignValues, checks \in BOOLEAN :
        probe = [op |-> "input", addr |-> a, align |-> al, checks |-> checks]
    /\ heap = <<>> /\ pic = <<>> /\ idt = <<>>
    /\ SyncIdle
    /\ MemIdle

\* align_down(addr, align)
AlignDown ==
    /\ probe.op = "input"
    /\ probe' = [probe EXCEPT !.op = "align_down"]
            @@ [ret |-> InLimbs(align_down_u64(from_limbs(probe.addr),
                                               from_limbs(probe.align)))]
    /\ UNCHANGED <<syncVars, memVars, heap, pic, idt>>

\* is_aligned(addr, align)
IsAligned ==
    /\ probe.op = "input"
    /\ probe' = [probe EXCEPT !.op = "is_aligned"]
            @@ [ret |-> is_aligned_u64(from_limbs(probe.addr),
                                       from_limbs(probe.align))]
    /\ UNCHANGED <<syncVars, memVars, heap, pic, idt>>

\* align_up(addr, align), and align_up(align_down(addr, align), align)
AlignUp ==
    /\ probe.op = "input"
    /\ probe' = [probe EXCEPT !.op = "align_up"]
            @@ [ret |-> InLimbs(align_up_u64(from_limbs(probe.addr),
                                             from_limbs(probe.align),
                                             probe.checks)),
                down |-> InLimbs(align_down_u64(from_limbs(probe.addr),
                                                from_limbs(probe.align))),
                up_of_down |->
                    IF is_power_of_two(from_limbs(probe.align))
                    THEN InLimbs(align_up_u64(
                            align_down_u64(from_limbs(probe.addr),
                                           from_limbs(probe.align)).value,
                            from_limbs(probe.align), probe.checks))
                    ELSE Fail("Cannot align to non power of two alignment")]
    /\ UNCHANGED <<syncVars, memVars, heap, pic, idt>>

NextAlign == AlignDown \/ IsAligned \/ AlignUp
SpecAlign == InitAlign /\ [][NextAlign]_vars

(***************************************************************************)
(* The free list (kernel/src/kmem/ll_heap/freelist.rs)                     *)
(*                                                                         *)
(* The free list is a record: the page window, head (0 for None, the niche *)
(* of NonZero), the fields of memory written so far (address -> field),    *)
(* the panic that stopped the code, and the block returned. An Entry is    *)
(* three fields of one word each: prev, next, size.                        *)
(***************************************************************************)

\* lines 61-62
FREELIST_ENTRY_ALIGN == size_of_usize
FREELIST_ENTRY_SIZE == 3 * size_of_usize

\* crate::kmem::ll_heap::is_aligned_us
is_aligned_us(addr, align) == addr % align = 0

NoBlock == [start |-> 0, end |-> 0]

\* The addresses of the fields of the Entry at an offset.
prev_at(o) == o
next_at(o) == o + size_of_usize
size_at(o) == o + 2 * size_of_usize

\* A write of one word at an address: the words it overlaps are gone.
word_write(m, a, field, v) ==
    [x \in {y \in DOMAIN m : y + size_of_usize <= a \/ a + size_of_usize <= y}
            \cup {a} |->
        IF x = a THEN [field |-> field, value |-> v] ELSE m[x]]

\* A read of one word: a word nobody wrote as this field holds anything.
word_read(fl, a, field) ==
    IF a \in DOMAIN fl.mem /\ fl.mem[a].field = field
    THEN fl.mem[a].value ELSE fl.junk

\* HeapOffset::write::<Entry>: ptr::write through a pointer that is not
\* aligned for Entry, or that reaches past the pages of the heap, is
\* undefined: the build or the hardware traps, or the bytes are written.
HeapOffset_write(fl, o, entry) ==
    IF fl.panic # NoPanic THEN fl
    ELSE IF ~is_aligned_us(o, FREELIST_ENTRY_ALIGN) /\ fl.trap
    THEN Panic(fl, "misaligned pointer dereference")
    ELSE IF o + FREELIST_ENTRY_SIZE > VirtPage_base_u64(fl.pages.end)
            /\ fl.trap
    THEN Panic(fl, "page fault")
    ELSE [fl EXCEPT !.mem =
            word_write(
                word_write(
                    word_write(@, prev_at(o), "prev", entry.prev),
                    next_at(o), "next", entry.next),
                size_at(o), "size", entry.size)]

\* FreeList::entry_from_offset
entry_from_offset(fl, o) ==
    [prev |-> word_read(fl, prev_at(o), "prev"),
     next |-> word_read(fl, next_at(o), "next"),
     size |-> word_read(fl, size_at(o), "size")]

\* FreeList::offset: the assertions of lines 138-141.
FreeList_offset(fl, o) ==
    IF o < VirtPage_base_u64(fl.pages.start)
    THEN Fail("assertion failed: o >= self.pages.first().base_u64() as usize")
    ELSE IF o > VirtPage_base_u64(fl.pages.end)
    THEN Fail("assertion failed: o <= self.pages.end().base_u64() as usize")
    ELSE IF o = 0 THEN Fail("heap offset should be non-zero")
    ELSE Fine(o)

\* FreeList::new, lines 114-133, with the two offsets computed.
FreeList_new_block(fl, start, end) ==
    IF start.panic # NoPanic THEN Panic(fl, start.panic)
    ELSE IF end.panic # NoPanic THEN Panic(fl, end.panic)
    ELSE [HeapOffset_write(fl, start.value,
                [prev |-> 0, next |-> 0, size |-> end.value - start.value])
            EXCEPT !.head = start.value]

\* FreeList::new
FreeList_new(pages) ==
    LET fl == [pages |-> pages, head |-> 0, mem |-> <<>>, panic |-> NoPanic,
               ret |-> NoBlock, trap |-> FALSE, junk |-> 0,
               resizes |-> 0, last |-> [op |-> "new"]]
    IN FreeList_new_block(
            fl, FreeList_offset(fl, VirtPage_base_u64(pages.start)),
            FreeList_offset(fl, VirtPage_base_u64(pages.end)))

\* FreeList::head
FreeList_head(fl) ==
    [start |-> fl.head,
     end |-> fl.head + entry_from_offset(fl, fl.head).size]

\* resize_block, lines 193-197: the predecessor's next.
fix_prev(fl, old_prev, new_start) ==
    IF fl.panic # NoPanic \/ old_prev = 0 THEN fl
    ELSE [fl EXCEPT !.mem = word_write(@, next_at(old_prev), "next", new_start)]

\* resize_block, lines 199-203: the successor's prev.
fix_next(fl, old_next, new_start) ==
    IF fl.panic # NoPanic \/ old_next = 0 THEN fl
    ELSE [fl EXCEPT !.mem = word_write(@, prev_at(old_next), "prev", new_start)]

\* resize_block, lines 206-208: the head pointer.
fix_head(fl, block, new_start) ==
    IF fl.panic # NoPanic THEN fl
    ELSE IF fl.head # 0 /\ fl.head = block.start
    THEN [fl EXCEPT !.head = new_start]
    ELSE fl

\* resize_block, lines 210-215: the block returned.
alloc_block(fl, block, end) ==
    IF fl.panic # NoPanic THEN fl
    ELSE IF end.panic # NoPanic THEN Panic(fl, end.panic)
    ELSE [fl EXCEPT !.ret = [start |-> block.start, end |-> end.value]]

\* resize_block, lines 176-215, with the start of the new block.
resize_block_at(fl, block, len, old, new_start) ==
    IF new_start.panic # NoPanic THEN Panic(fl, new_start.panic)
    ELSE IF ~is_aligned_us(block.start, FREELIST_ENTRY_ALIGN)
    THEN Panic(fl, "assertion failed: is_aligned_us(block.start)")
    ELSE alloc_block(
            fix_head(
                fix_next(
                    fix_prev(
                        HeapOffset_write(
                            fl, new_start.value,
                            [prev |-> old.prev, next |-> old.next,
                             size |-> block.end - new_start.value]),
                        old.prev, new_start.value),
                    old.next, new_start.value),
                block, new_start.value),
            block, FreeList_offset(fl, block.start + len))

\* FreeList::resize_block
resize_block(fl, block, len) ==
    IF fl.panic # NoPanic THEN fl
    ELSE IF ~(len < block.end - block.start)
    THEN Panic(fl, "assertion failed: len < block.size()")
    ELSE resize_block_at(fl, block, len, entry_from_offset(fl, block.start),
                         FreeList_offset(fl, block.start + len))

(***************************************************************************)
(* The free list as a state machine                                        *)
(***************************************************************************)

MaxResizes == 2

\* Lengths to cut from a block: none, a byte, one and two words, an Entry,
\* a page, and what leaves an Entry, a word, a byte or nothing.
ResizeLens(block) ==
    {0, 1, size_of_usize, 2 * size_of_usize, FREELIST_ENTRY_SIZE, PAGE_SIZE}
        \cup {(block.end - block.start) - t :
                t \in {FREELIST_ENTRY_SIZE, size_of_usize, 1, 0}}

\* The Entry of the head was written whole.
HeadWritten(fl) ==
    /\ fl.head # 0
    /\ \A f \in {"prev", "next", "size"} :
        LET a == CASE f = "prev" -> prev_at(fl.head)
                   [] f = "next" -> next_at(fl.head)
                   [] OTHER -> size_at(fl.head)
        IN a \in DOMAIN fl.mem /\ fl.mem[a].field = f

\* What a read of a word nobody wrote can find.
JunkWords == IF HeadWritten(heap) THEN {0} ELSE {0, PAGE_SIZE}

InitFreeList ==
    /\ \E start \in HeapStarts :
        heap = FreeList_new(range_length(start, HeapPages))
    /\ pic = <<>> /\ idt = <<>> /\ probe = <<>>
    /\ SyncIdle
    /\ MemIdle

\* free_list.resize_block(free_list.head().unwrap(), len)
ResizeBlock ==
    /\ heap.panic = NoPanic /\ heap.head # 0
    /\ heap.resizes < MaxResizes
    /\ \E trap \in BOOLEAN, junk \in JunkWords :
        LET fl == [heap EXCEPT !.trap = trap, !.junk = junk]
            block == FreeList_head(fl)
        IN \E len \in ResizeLens(block) \cap Nat :
            heap' = [resize_block(fl, block, len) EXCEPT
                        !.resizes = @ + 1,
                        !.last = [op |-> "resize_block", block |-> block,
                                  len |-> len,
                                  old |-> entry_from_offset(fl, block.start),
                                  pre_head |-> heap.head,
                                  pre_mem |-> heap.mem]]
    /\ UNCHANGED <<syncVars, memVars, pic, idt, probe>>

NextFreeList == ResizeBlock

SpecFreeList == InitFreeList /\ [][NextFreeList]_vars
(***************************************************************************)
(* Claims about the interrupt-safe spinlock                                *)
(***************************************************************************)

\* C1: the inner mutex of an InterruptSafeSpinlock is never held while
\* interrupts are enabled (the mutex is released before interrupts are
\* re-enabled).
C1_MutexHeldOnlyWithInterruptsOff ==
    \A l \in Locks : mutex[l] # "free" => ~iflag

\* A guard is live from the return of lock() until its drop begins.
LiveGuards(t) ==
    IF pc[t] = "unlock" THEN Len(guards[t]) - 1 ELSE Len(guards[t])

\* C2: while a guard is live interrupts are disabled, and a completed drop
\* leaves the interrupt flag at the value it had when the matching lock()
\* was called.
C2_GuardDisablesAndRestores ==
    /\ \A t \in Contexts : LiveGuards(t) > 0 => ~iflag
    /\ dropped.ctx # "-" => dropped.after = dropped.pre

\* C2 witness: an inner lock taken with interrupts already off (under an
\* outer guard that was taken with interrupts on) has been dropped, and the
\* outer guard is still live with interrupts off.
C2_Witness ==
    /\ dropped.ctx = "main" /\ ~dropped.pre /\ ~dropped.after
    /\ Len(guards["main"]) = 1 /\ pc["main"] = "call"
    /\ guards["main"][1].interrupts_enabled_on_enter
    /\ ~iflag

\* C3: every invocation of timer_handler or keyboard_handler eventually
\* acquires its locks, signals EOI and returns.
C3_HandlerReturns ==
    (todo["irq"] # <<>>) ~> (todo["irq"] = <<>> /\ isr = "none")

\* The last n steps of initialize_pic.
PicTail(n) ==
    SubSeq(initialize_pic, Len(initialize_pic) - n + 1, Len(initialize_pic))

\* The steps of initialize_pic left once initialize() has remapped the
\* PICs, and those left once both handlers are installed.
AfterRemap == Len(initialize_pic) - 2
AfterHandlers == Len(<<DropOp, DropOp>>)

\* initialize_pic is between the remapping of the PICs and the
\* installation of the second handler.
InPicWindow ==
    /\ Len(todo["main"]) \in AfterHandlers + 1 .. AfterRemap
    /\ todo["main"] = PicTail(Len(todo["main"]))

\* C39: during initialize_pic, from the remapping of the PICs until both
\* handlers are installed in the IDT, interrupts are disabled and no IRQ
\* is being handled, whether or not interrupts were enabled at the call.
C39_NoIrqBeforeHandlers ==
    InPicWindow => (iflag = FALSE /\ todo["irq"] = <<>>)

(***************************************************************************)
(* Claims about the page-table editor and the boot frame allocator         *)
(***************************************************************************)

MapOps == {"map_page", "map_page_range", "alloc_and_map_range"}

\* C4: for a page no huge-page entry covers, the kernel's get_entry walk
\* returns, after map_page(frame, page, flags), an entry with the address of
\* the frame and the flags of the call, and keeps doing so after later
\* map_page calls on other pages -- whatever memory nobody wrote holds.
C4_MapPageReadBack ==
    \A p \in Pages :
        mapped[p].valid =>
            \A g \in JunkTables :
                LET r == get_entry(WithJunk(g), p)
                    f == MappingFlags[mapped[p].flags]
                IN /\ r.some
                   /\ r.entry.addr = mapped[p].frame * PAGE_SIZE
                   /\ r.entry.present = f.present
                   /\ r.entry.write = f.write
                   /\ r.entry.no_exec = ~f.exec

\* C5: map_page, map_page_range and alloc_and_map_range panic when a page
\* they are given lies in a GiB covered by a present PDPT entry with
\* page-size = 1.
C5_HugeMappingRefused ==
    (last.op \in MapOps /\ last.huge) => panic # NoPanic

\* C6: the kernel's alloc_and_map_page on a page covered by a huge-page
\* PDPT entry panics, and at the panic the bitmap allocator and every page
\* table are as they were before the call.
C6_HugePanicsUntouched ==
    (last.op = "kernel_alloc_and_map_page" /\ last.huge) =>
        /\ panic = "tried to map area mapped as huge-page"
        /\ mem = last.pre_mem
        /\ phys = last.pre_phys

\* C6 witness: the kernel has been refused a page of the direct map of a
\* machine whose bitmap holds allocated and free frames.
C6_Witness ==
    /\ last.op = "kernel_alloc_and_map_page" /\ last.huge
    /\ last.page = as_direct_mapped(1)
    /\ panic = "tried to map area mapped as huge-page"
    /\ phys.allocated > 0
    /\ \E f \in 0 .. phys.range_end - 1 : ~Bitmap_read(phys.bitmap, f)

\* An entry that points to a lower-level table.
IntermediateOk(e) ==
    IF e.present
    THEN /\ e.write /\ ~e.no_exec
         /\ e.addr % PAGE_SIZE = 0
         /\ (e.addr \div PAGE_SIZE) \in cleared
    ELSE e.addr = 0

IsHuge(e) == e.present /\ e.page_size

\* C7: every present entry that points to a lower-level table (PML4 entries,
\* non-huge PDPT and PD entries) has W = 1, NX = 0 and the page-aligned
\* address of a frame that the allocator handed out and alloc_new cleared;
\* an intermediate entry that is not present holds no address.
C7_IntermediateEntries ==
    level_4 \in Frames =>
        \A g \in JunkTables, i4 \in EntryIdx :
            LET v == WithJunk(g)
                e4 == ReadTable(v, level_4)[i4]
            IN /\ IntermediateOk(e4)
               /\ e4.present =>
                    \A i3 \in EntryIdx :
                        LET e3 == ReadTable(v, e4.addr \div PAGE_SIZE)[i3]
                        IN \/ IsHuge(e3)
                           \/ /\ IntermediateOk(e3)
                              /\ e3.present =>
                                    \A i2 \in EntryIdx :
                                        LET e2 == ReadTable(v,
                                                    e3.addr \div PAGE_SIZE)[i2]
                                        IN IsHuge(e2) \/ IntermediateOk(e2)

\* The frames of whole GiBs among the frames map_physical_memory maps.
C8_End == physical_range(memory_map).end
C8_WholeEnd == (C8_End \div HUGE_PAGE_SIZE_PAGES) * HUGE_PAGE_SIZE_PAGES

\* How the direct map shows frame f: "huge" through a PDPT entry with
\* page-size = 1, "small" through a leaf entry, with the entry.
C8_Walk(f) ==
    LET p == PHYSMEM_START + f
        e4 == mem[level_4][get_page_map_l4_idx(p)]
        e3 == mem[e4.addr \div PAGE_SIZE][get_page_dir_ptr_idx(p)]
        e2 == mem[e3.addr \div PAGE_SIZE][get_page_dir_idx(p)]
        e1 == mem[e2.addr \div PAGE_SIZE][get_page_table_idx(p)]
    IN IF ~e4.present \/ ~e3.present THEN [kind |-> "none", entry |-> e3]
       ELSE IF e3.page_size THEN [kind |-> "huge", entry |-> e3]
       ELSE IF ~e2.present \/ e2.page_size THEN [kind |-> "none", entry |-> e2]
       ELSE [kind |-> "small", entry |-> e1]

\* C8: after map_physical_memory every frame f below the end E of the
\* highest descriptor considered is shown at PHYSMEM_START + f: a frame of
\* a whole GiB by the PDPT entry of its GiB (page-size, W, NX, present,
\* address of the GiB), a frame of the tail by a leaf entry (W, NX,
\* present, address of the frame), and by that kind only.
C8_DirectMap ==
    (last.op = "map_physical_memory" /\ panic = NoPanic) =>
        \A f \in 0 .. C8_End - 1 :
            LET w == C8_Walk(f)
            IN /\ w.entry.present /\ w.entry.write /\ w.entry.no_exec
               /\ IF f < C8_WholeEnd
                  THEN /\ w.kind = "huge"
                       /\ w.entry.addr =
                            (f - (f % HUGE_PAGE_SIZE_PAGES)) * PAGE_SIZE
                  ELSE /\ w.kind = "small"
                       /\ w.entry.addr = f * PAGE_SIZE

\* C8 witness: physical memory has been mapped with a huge page for the
\* first GiB and leaf entries for a tail.
C8_Witness ==
    /\ last.op = "map_physical_memory" /\ panic = NoPanic
    /\ 0 < C8_WholeEnd /\ C8_WholeEnd < C8_End
    /\ C8_Walk(0).kind = "huge"
    /\ C8_Walk(C8_End - 1).kind = "small"

\* C9: the frames the boot allocator returns are alloc_start, alloc_start
\* + 1, ... in this order (none twice), next_frame is the frame after the
\* last one returned, all lie below alloc_end, and a call made with
\* next_frame at alloc_end panics and returns nothing.
C9_BumpAllocator ==
    phase \in {"boot", "direct"} =>
        /\ \A i \in 1 .. Len(returned) :
                /\ returned[i] = allocator.alloc_start + (i - 1)
                /\ returned[i] < allocator.alloc_end
        /\ allocator.next_frame = allocator.alloc_start + Len(returned)
        /\ last.op = "alloc_frame" =>
                IF last.pre_alloc.next_frame >= allocator.alloc_end
                THEN /\ panic = "Used all reserved boot physical memory!"
                     /\ returned = last.pre_returned
                ELSE /\ panic = NoPanic
                     /\ last.ret = last.pre_alloc.next_frame
                     /\ returned = Append(last.pre_returned, last.ret)

\* C9 witness: the whole reservation has been handed out, to page tables
\* and to callers, and one more alloc_frame has panicked.
C9_Witness ==
    /\ last.op = "alloc_frame"
    /\ panic = "Used all reserved boot physical memory!"
    /\ Len(returned) = MinFrames
    /\ cleared # {}

\* n calls of alloc_frame from the state before the last operation.
C10_Calls ==
    alloc_frames([alloc |-> last.pre_alloc, returned |-> last.pre_returned,
                  panic |-> NoPanic, ret |-> 0], last.n)

\* C10: alloc_frame_range(n) with n frames left returns the n frames from
\* next_frame on and leaves the allocator as n calls of alloc_frame do.
C10_RangeIsRepeatedAlloc ==
    (/\ last.op = "alloc_frame_range"
     /\ last.pre_alloc.next_frame + last.n <= allocator.alloc_end) =>
        /\ panic = NoPanic
        /\ last.range = range_length(last.pre_alloc.next_frame, last.n)
        /\ allocator = C10_Calls.alloc
        /\ returned = C10_Calls.returned

(***************************************************************************)
(* Claims about the kernel loader                                          *)
(***************************************************************************)

\* The leaf entry the kernel's walk finds for a page.
Leaf(p) == get_entry(St, p)

\* The leaf entry of page p shows the frame with the flags.
ShowsFrame(p, frame, flags) ==
    /\ Leaf(p).some
    /\ Leaf(p).entry.addr = frame * PAGE_SIZE
    /\ Leaf(p).entry.present = MappingFlags[flags].present
    /\ Leaf(p).entry.write = MappingFlags[flags].write
    /\ Leaf(p).entry.no_exec = ~MappingFlags[flags].exec

LoadedSegment == last.op = "map_load_segment"
Accepted(phdr) ==
    phdr.align = PAGE_SIZE /\ phdr.virtual_addr >= KERNEL_START
Congruent(phdr) == phdr.offset % PAGE_SIZE = phdr.virtual_addr % PAGE_SIZE

\* The typed errors that apply to a header.
TypedErrors(phdr) ==
    {e \in {"ImproperAlignment"} : phdr.align # PAGE_SIZE}
        \cup {e \in {"InvalidKernelSegmentAddress"} :
                phdr.virtual_addr < KERNEL_START}

\* C11: for a PT_LOAD header with align # PAGE_SIZE or virtual_addr below
\* KERNEL_START, map_load_segment returns the typed error that applies and
\* does not panic, and it has installed no mapping and taken no frame.
C11_TypedErrorNoEffect ==
    (LoadedSegment /\ TypedErrors(last.phdr) # {}) =>
        /\ panic = NoPanic
        /\ last.result \in TypedErrors(last.phdr)
        /\ mem = last.pre_mem
        /\ allocator = last.pre_alloc

\* The pages with a byte of [virtual_addr, virtual_addr + file_size), and
\* the page the loader gives a frame of its own when the file data ends
\* inside it.
FilePages(phdr) ==
    IF phdr.file_size = 0 THEN {}
    ELSE VirtPage_from_containing_u64(phdr.virtual_addr) ..
         VirtPage_from_containing_u64(phdr.virtual_addr + phdr.file_size - 1)
FileFrame(phdr, p) ==
    PhysFrame_from_containing_u64(kernel_phys_offset + phdr.offset)
        + (p - VirtPage_from_containing_u64(phdr.virtual_addr))
BoundaryPage(phdr) ==
    VirtPage_from_containing_u64(phdr.virtual_addr + phdr.file_size)
EndsInsidePage(phdr) ==
    (phdr.virtual_addr + phdr.file_size) % PAGE_SIZE # 0

\* C12: for an accepted segment with offset and virtual_addr congruent
\* modulo PAGE_SIZE the file frame range and the file page range have the
\* same length, so that map_page_range's assertion holds, and the i-th
\* page of [virtual_addr, virtual_addr + file_size) shows the i-th frame
\* of the file bytes with the segment's flags (the page the file data ends
\* in is looked at apart, once it has a frame of its own).
C12_FileMapping ==
    (LoadedSegment /\ Accepted(last.phdr) /\ Congruent(last.phdr)) =>
        /\ panic # "assertion failed: frames.len() == pages.len()"
        /\ last.result = "Ok" =>
            \A p \in FilePages(last.phdr) :
                \/ EndsInsidePage(last.phdr) /\ p = BoundaryPage(last.phdr)
                \/ ShowsFrame(p, FileFrame(last.phdr, p), last.phdr.flags)

\* The pages with a byte of [virtual_addr + file_size, virtual_addr +
\* mem_size).
ZeroPages(phdr) ==
    VirtPage_from_containing_u64(phdr.virtual_addr + phdr.file_size) ..
    VirtPage_from_containing_u64(phdr.virtual_addr + phdr.mem_size - 1)

\* The frames the call took from the allocator.
FreshFrames == last.pre_alloc.next_frame .. allocator.next_frame - 1

\* The data of a frame is zero or copied file data.
ZeroOrFile(f) ==
    \A c \in Parts : bytes[f][c] = ZeroData \/ bytes[f][c][1] = "file"

\* C13: after map_load_segment succeeds with mem_size > file_size, every
\* page with a byte of [virtual_addr + file_size, virtual_addr + mem_size)
\* is present with the segment's flags on a frame of its own that the call
\* took from the allocator, and the frame is zero outside the file bytes
\* copied into it.
C13_ZeroPages ==
    (LoadedSegment /\ last.result = "Ok"
        /\ last.phdr.mem_size > last.phdr.file_size) =>
        /\ \A p \in ZeroPages(last.phdr) :
            \E f \in FreshFrames :
                /\ ShowsFrame(p, f, last.phdr.flags)
                /\ Leaf(p).entry.present
                /\ ZeroOrFile(f)
        /\ \A p, q \in ZeroPages(last.phdr) :
                p # q => Leaf(p).entry.addr # Leaf(q).entry.addr

\* The file data the virtual address of part c of page p has, in the
\* memory before the call.
FileByteAt(phdr, p, c) ==
    LET addr == VirtPage_base_u64(p) + c * CopyUnit
        src == kernel_phys_offset + phdr.offset + (addr - phdr.virtual_addr)
    IN last.pre_bytes[PhysFrame_from_containing_u64(src)]
                     [(src % PAGE_SIZE) \div CopyUnit]
InFile(phdr, p, c) ==
    LET addr == VirtPage_base_u64(p) + c * CopyUnit
    IN phdr.virtual_addr <= addr /\ addr < phdr.virtual_addr + phdr.file_size

\* The parts of a frame that were copied to.
CopiedParts(f) == {c \in Parts : bytes[f][c] # ZeroData}

\* The page the file data ends in is on the first zero-range frame, which
\* is not the frame of the file; the frame holds the file bytes of the page
\* at their offsets and zeros elsewhere, less than a page was copied, and
\* no other frame taken holds copied bytes.
BoundaryFixedUp(phdr) ==
    LET p == BoundaryPage(phdr)
        f == last.zeroed_frames.start
    IN /\ last.result = "Ok"
       /\ f \in FreshFrames
       /\ ShowsFrame(p, f, phdr.flags)
       /\ f # FileFrame(phdr, p)
       /\ \A c \in Parts :
            bytes[f][c] = IF InFile(phdr, p, c) THEN FileByteAt(phdr, p, c)
                          ELSE ZeroData
       /\ CopiedParts(f) # Parts
       /\ \A g \in RangeSet(last.zeroed_frames) \ {f} : CopiedParts(g) = {}

\* C14: when file_size is not a whole number of pages and mem_size >
\* file_size, the page of virtual_addr + file_size ends up on the first
\* zero-range frame taken from the allocator and not on the frame of the
\* file; the frame holds the file bytes of that page at the same offsets
\* and zeros elsewhere; the copy is shorter than PAGE_SIZE; no other
\* zero-range frame receives copied bytes.
C14_BoundaryFixup ==
    (LoadedSegment /\ Accepted(last.phdr)
        /\ last.phdr.file_size % PAGE_SIZE # 0
        /\ last.phdr.mem_size > last.phdr.file_size) =>
        BoundaryFixedUp(last.phdr)

\* The stack pages above a guard page.
StackPages(guard) == guard + 1 .. guard + KERNEL_STACK_PAGES

\* A guard page that is not present lies directly below present, writable,
\* non-executable stack pages.
GuardedStack(guard) ==
    /\ StackPages(guard) \subseteq Pages
    /\ Leaf(guard).some
    /\ ~Leaf(guard).entry.present
    /\ \A p \in StackPages(guard) :
        /\ Leaf(p).some
        /\ Leaf(p).entry.present
        /\ Leaf(p).entry.write
        /\ Leaf(p).entry.no_exec

\* C15: load_kernel maps a guard page that is not present directly below
\* KERNEL_STACK_PAGES present, writable, non-executable stack pages above
\* the highest virtual_addr + mem_size, and returns as stack_top the end
\* address of the highest stack page minus 16: a multiple of 16 inside a
\* mapped stack page.
C15_KernelStack ==
    (last.op = "load_kernel" /\ panic = NoPanic) =>
        \E guard \in Pages :
            /\ VirtPage_base_u64(guard) >= boot.kernel_end
            /\ GuardedStack(guard)
            /\ boot.stack_top =
                VirtPage_base_u64(guard + KERNEL_STACK_PAGES) + PAGE_SIZE - 16
            /\ boot.stack_top % 16 = 0
            /\ VirtPage_from_containing_u64(boot.stack_top)
                    \in StackPages(guard)

\* A segment without zero bytes: mem_size = file_size.
NoZeroBytes(phdr) == phdr.mem_size = phdr.file_size

\* C28: if mem_size = file_size, so that [virtual_addr + file_size,
\* virtual_addr + mem_size) is empty, map_load_segment computes an empty
\* zero page range for every file_size: it takes no frame from the
\* allocator for zero pages and leaves the last file page on its file
\* frame.
C28_EmptyZeroRange ==
    (LoadedSegment /\ last.result = "Ok" /\ NoZeroBytes(last.phdr)) =>
        /\ RangeLen(last.zeroed_frames) = 0
        /\ \A p \in FilePages(last.phdr) :
            ShowsFrame(p, FileFrame(last.phdr, p), last.phdr.flags)

\* The pages of a range.
RangePages(r) == r.start .. r.end - 1

\* The guard page create_kernel_stack chose for the loaded kernel.
LoadedGuard == VirtPage_from_containing_u64(boot.kernel_end) + 1

\* The leaf entry a page had before the last operation.
LeafBefore(p) == get_entry([St EXCEPT !.mem = last.pre_mem], p)

\* C37: the heap window the kernel builds from the loader's stack_top has
\* no page in common with the guard page and the KERNEL_STACK_PAGES stack
\* pages, and building it leaves the mapping of every stack page as the
\* loader made it.
C37_HeapClearOfStack ==
    (last.op = "bootstrap_heap_area" /\ panic = NoPanic) =>
        /\ RangePages(last.heap_pages)
              \cap ({LoadedGuard} \cup StackPages(LoadedGuard)) = {}
        /\ \A p \in StackPages(LoadedGuard) : Leaf(p) = LeafBefore(p)

(***************************************************************************)
(* Claims about the boot information and the kernel's frame allocator      *)
(***************************************************************************)

BootInfoWritten == last.op = "create_boot_info" /\ panic = NoPanic

\* The frames of the i-th region written.
RegionFrames(i) == RangeSet(as_range(BootRegions[i]))

\* The merged regions of the firmware map that contain the reservation.
ReservedRegions ==
    {i \in 1 .. Len(MemRegionIter(memory_map, <<>>)) :
        contains_range(as_range(MemRegionIter(memory_map, <<>>)[i]),
                       reserved_range(allocator))}

\* C16: the MemRegion sequence create_mem_regions writes for a sorted
\* firmware map without overlap is sorted by start, its regions do not
\* overlap, at most one of them has type Bootloader, and no more regions
\* are written than the array allocated holds (merged region count + 2).
C16_RegionsSorted ==
    (last.op = "create_boot_info" => panic # "index out of bounds")
    /\ (BootInfoWritten =>
        /\ \A i, j \in 1 .. Len(BootRegions) :
            i < j =>
                /\ BootRegions[i].start <= BootRegions[j].start
                /\ RegionFrames(i) \cap RegionFrames(j) = {}
        /\ Cardinality({i \in 1 .. Len(BootRegions) :
                            BootRegions[i].ty = "Bootloader"}) <= 1
        /\ boot.num_regions <= Len(boot.array)
        /\ Len(boot.array) = Len(MemRegionIter(memory_map, <<>>)) + 2)

\* C16 witness: the region of the reservation, merged from two
\* descriptors, has been written as three regions that fill the array.
C16_Witness ==
    /\ BootInfoWritten
    /\ Len(MemRegionIter(memory_map, <<>>)) < Len(memory_map)
    /\ boot.num_regions = Len(boot.array)
    /\ \E i \in 2 .. Len(BootRegions) - 1 :
        /\ BootRegions[i].ty = "Bootloader"
        /\ BootRegions[i - 1].ty = "Usable"
        /\ BootRegions[i + 1].ty = "Usable"

\* C17: the merged Usable region that contains the reservation is written
\* as a Usable region for the frames before alloc_start, one Bootloader
\* region equal to used_range() and Usable regions that cover all the
\* other frames, the unused tail [next_frame, alloc_end) of the
\* reservation among them: every frame of the region lies in exactly one
\* region written.
C17_SplitCoversRegion ==
    BootInfoWritten =>
        \A r \in ReservedRegions :
            \A f \in RangeSet(as_range(MemRegionIter(memory_map, <<>>)[r])) :
                /\ Cardinality({i \in 1 .. Len(BootRegions) :
                                    f \in RegionFrames(i)}) = 1
                /\ \A i \in 1 .. Len(BootRegions) :
                    f \in RegionFrames(i) =>
                        BootRegions[i].ty =
                            IF f \in RangeSet(used_range(allocator))
                            THEN "Bootloader" ELSE "Usable"

\* The page of a kernel virtual address shows the frame of the physical
\* address, and the two addresses have the same offset in the page.
ShownAt(virt, physical) ==
    /\ Canonical(virt) /\ virt >= KMEM_START
    /\ VirtPage_from_containing_u64(virt) \in RangeSet(BootInfoPages)
    /\ ShowsFrame(VirtPage_from_containing_u64(virt),
                  PhysFrame_from_containing_u64(physical), "rw_data")
    /\ virt % PAGE_SIZE = physical % PAGE_SIZE

\* C18: the BootInfo pointer returned and mem_regions.ptr are their
\* physical address in the arena frame plus (BOOTINFO_START - base of the
\* arena frame) and lie in the boot-info page that shows the arena frame;
\* framebuffer.address lies in the boot-info pages that show the frames of
\* the framebuffer, at the offset the physical address has in its frame.
C18_KernelPointers ==
    BootInfoWritten =>
        /\ boot.boot_info_ptr =
            boot.boot_info_phys
                + (BOOTINFO_START - PhysFrame_base_u64(boot.frame))
        /\ boot.regions_ptr =
            boot.regions_phys
                + (BOOTINFO_START - PhysFrame_base_u64(boot.frame))
        /\ PhysFrame_from_containing_u64(boot.boot_info_phys) = boot.frame
        /\ PhysFrame_from_containing_u64(boot.regions_phys) = boot.frame
        /\ ShownAt(boot.boot_info_ptr, boot.boot_info_phys)
        /\ ShownAt(boot.regions_ptr, boot.regions_phys)
        /\ ShownAt(boot.fb_address, boot.fb_addr)

\* C18 witness: the boot information has been written for a framebuffer
\* that starts inside a frame, after the array of regions.
C18_Witness ==
    /\ BootInfoWritten
    /\ boot.fb_addr % PAGE_SIZE # 0
    /\ boot.boot_info_phys > boot.regions_phys
    /\ boot.regions_ptr >= BOOTINFO_START

PhysBuilt == last.op = "phys_new" /\ panic = NoPanic

\* The frames of the regions that are not usable.
NotUsableFrames ==
    UNION {RangeSet(as_range(last.regions[i])) :
            i \in {j \in 1 .. Len(last.regions) :
                        last.regions[j].ty # "Usable"}}

\* The frames that hold the bytes of the bitmap: the first frames of the
\* first usable region with more bytes than the bitmap.
BitmapBytes == (phys.range_end + 7) \div 8
StorageRegions ==
    {i \in 1 .. Len(last.regions) :
        /\ last.regions[i].ty = "Usable"
        /\ last.regions[i].pages * PAGE_SIZE > BitmapBytes}
StorageFrames ==
    LET i == CHOOSE k \in StorageRegions : \A j \in StorageRegions : k <= j
    IN last.regions[i].start ..
       last.regions[i].start + (BitmapBytes + PAGE_SIZE - 1) \div PAGE_SIZE - 1

\* C19: after PhysFrameAllocator::new on a sorted region list without
\* overlap the bit of a frame below the highest frame is 1 if and only if
\* the frame lies in a region that is not Usable or holds bytes of the
\* bitmap; every other frame has bit 0.
C19_BitmapAfterNew ==
    PhysBuilt =>
        \A f \in 0 .. phys.range_end - 1 :
            Bitmap_read(phys.bitmap, f) <=>
                (f \in NotUsableFrames \/ f \in StorageFrames)

\* C19 witness: the bitmap has been built for regions with frames that are
\* not usable in its first and its second byte, and has free frames.
C19_Witness ==
    /\ PhysBuilt
    /\ \E f \in NotUsableFrames : f < 8
    /\ \E f \in NotUsableFrames : f >= 8
    /\ StorageFrames \cap NotUsableFrames = {}
    /\ \E f \in 0 .. phys.range_end - 1 : ~Bitmap_read(phys.bitmap, f)

\* The frames read as free before the last call, and all the bits of the
\* bytes of the bitmap.
FreeBefore ==
    {f \in 0 .. phys.range_end - 1 : ~Bitmap_read(last.pre_phys.bitmap, f)}
AllBits == 0 .. 8 * BitmapBytes - 1

\* C20: alloc_frame returns the lowest frame whose bit is 0 and sets that
\* bit and no other (a frame handed out and not freed since is not
\* returned again); when every bit is 1 it returns None and leaves the
\* bitmap and the allocated counter as they were.
C20_AllocLowestFree ==
    last.op = "phys_alloc_frame" =>
        IF FreeBefore = {}
        THEN ~last.some /\ phys = last.pre_phys
        ELSE /\ last.some
             /\ last.ret \in FreeBefore
             /\ \A f \in FreeBefore : last.ret <= f
             /\ \A f \in AllBits :
                    Bitmap_read(phys.bitmap, f) <=>
                        (f = last.ret \/ Bitmap_read(last.pre_phys.bitmap, f))
             /\ \A i \in 1 .. Len(last.pre_returned) :
                    last.pre_returned[i] # last.ret
             /\ phys.allocated = last.pre_phys.allocated + 1

\* C20 witness: after frames were handed out, freed and handed out again,
\* alloc_frame has found every bit set and returned None.
C20_Witness ==
    /\ last.op = "phys_alloc_frame" /\ ~last.some
    /\ nops > 0
    /\ returned # <<>>
    /\ phys.allocated = phys.range_end

\* C21: when alloc_frame() returns Some(f) and free_frame(f) is called next,
\* the bitmap and the allocated counter are what they were before the
\* alloc_frame() call, and the call does not panic.
C21_AllocFreeRestores ==
    (last.op = "phys_free_frame" /\ last.after_alloc) =>
        /\ panic = NoPanic
        /\ phys.bitmap = last.alloc_pre_phys.bitmap
        /\ phys.allocated = last.alloc_pre_phys.allocated
        /\ phys.range_end = last.alloc_pre_phys.range_end

\* The pair of calls happened on an allocator that had frames out already.
C21_Witness ==
    /\ last.op = "phys_free_frame" /\ last.after_alloc
    /\ panic = NoPanic
    /\ returned # <<>>
    /\ Bitmap_read(last.pre_phys.bitmap, last.frame)
    /\ ~Bitmap_read(phys.bitmap, last.frame)

\* The frames of the regions of the boot information of a type, and the
\* frames that hold the bitmap built from these regions.
FramesTyped(types) ==
    UNION {RangeSet(as_range(BootRegions[i])) :
            i \in {j \in 1 .. Len(BootRegions) : BootRegions[j].ty \in types}}
BootStorageRegions ==
    {i \in 1 .. Len(BootRegions) :
        /\ BootRegions[i].ty = "Usable"
        /\ BootRegions[i].pages * PAGE_SIZE > BitmapBytes}
BootStorageFrames ==
    LET i == CHOOSE k \in BootStorageRegions :
                \A j \in BootStorageRegions : k <= j
    IN BootRegions[i].start ..
       BootRegions[i].start + (BitmapBytes + PAGE_SIZE - 1) \div PAGE_SIZE - 1

AllocReturned == last.op = "phys_alloc_frame" /\ last.some

\* C36: after construction and after any sequence of alloc_frame and
\* free_frame calls, every frame alloc_frame returns lies inside a region
\* the boot memory map typed Usable: never a frame of an Allocated or
\* Bootloader region, never a frame holding the bitmap storage, and never a
\* frame in a hole that no region of the map describes.
C36_ReturnsUsable ==
    AllocReturned =>
        /\ last.ret \in FramesTyped({"Usable"})
        /\ last.ret \notin FramesTyped({"Allocated", "Bootloader"})
        /\ last.ret \notin BootStorageFrames

\* The frames whose bitmap bit is 1.
OneBits(map) ==
    {f \in 0 .. 8 * Cardinality(DOMAIN map) - 1 : Bitmap_read(map, f)}

\* The calls of free_frame.
FreeOps == {"phys_free_frame", "phys_free_any_frame"}

\* C38: after PhysFrameAllocator::new and after every alloc_frame and
\* free_frame call with a frame of the managed range, the allocated
\* counter is the number of 1 bits of the bitmap, and free_frame never
\* takes the counter below zero.
C38_CountIsOneBits ==
    /\ (phase = "frames" /\ panic = NoPanic) =>
            phys.allocated = Cardinality(OneBits(phys.bitmap))
    /\ (phase = "frames" /\ last.op \in FreeOps) =>
            last.pre_phys.allocated > 0

(***************************************************************************)
(* Claims about the kernel heap                                            *)
(***************************************************************************)

\* The allocations handed out so far, and the header of one as memory
\* holds it now.
HeapAllocs == {heap.allocs[i] : i \in 1 .. Len(heap.allocs)}
HeaderAt(a) == a.ptr - size_of_AllocHeader
HasHeader(a) ==
    /\ {HeaderAt(a), HeaderAt(a) + size_of_usize} \subseteq DOMAIN heap.words
    /\ heap.words[HeaderAt(a)][1] = "start"
    /\ heap.words[HeaderAt(a) + size_of_usize][1] = "end"
UsedStart(a) == heap.words[HeaderAt(a)][2]
UsedEnd(a) == heap.words[HeaderAt(a) + size_of_usize][2]

\* C22: every non-null pointer alloc returned for a layout is a multiple of
\* layout.align, and [ptr, ptr + layout.size) lies inside the page window of
\* the heap.
C22_AlignedInsideWindow ==
    \A a \in HeapAllocs :
        /\ a.ptr # 0
        /\ a.ptr % a.layout.align = 0
        /\ heap_first(heap) <= a.ptr
        /\ a.ptr + a.layout.size <= heap_end(heap)

\* Two allocations, the second one moved up by its alignment.
C22_Witness ==
    /\ Len(heap.allocs) >= 2
    /\ heap.allocs[2].ptr > heap.allocs[2].block.start + ALLOC_HEADER_SIZE
    /\ heap.allocs[2].ptr % heap.allocs[2].layout.align = 0

\* C23: after free(ptr, layout) on a pointer alloc returned, the range
\* recorded in the AllocHeader of the allocation is a free block of the free
\* list.
C23_FreedRangeIsFree ==
    (heap.last.op = "free") =>
        /\ HasHeader(heap.last.alloc)
        /\ \E b \in FreeBlocks(heap) :
            /\ b.start = UsedStart(heap.last.alloc)
            /\ b.end >= UsedEnd(heap.last.alloc)

\* The FreeHeader writes so far that were a split of a block.
SplitHeaders == {heap.fhdrs[i] : i \in 2 .. Len(heap.fhdrs)}

\* C29: a FreeHeader is written at alloc_end only when the tail of the block
\* has room for a FreeHeader; every FreeHeader written lies inside the
\* window, in space no allocation uses.
C29_FreeHeaderInFreeSpace ==
    \A f \in SplitHeaders :
        /\ f.size >= size_of_FreeHeader
        /\ heap_first(heap) <= f.offset
        /\ f.offset + size_of_FreeHeader <= heap_end(heap)
        /\ \A a \in HeapAllocs :
            HasHeader(a) /\ UsedStart(a) < f.offset =>
                UsedEnd(a) <= f.offset

\* C30: every pointer returned has its AllocHeader at ptr - sizeof
\* (AllocHeader), recording [start, end) with start the start of the free
\* block it was carved from; the first range starts at the base of the
\* heap and each one starts where the one before ends, so the ranges are
\* disjoint and without gaps; the header and the payload lie inside the
\* range.
C30_AllocHeadersTile ==
    \A i \in 1 .. Len(heap.allocs) :
        LET a == heap.allocs[i]
        IN /\ HasHeader(a)
           /\ UsedStart(a) = a.block.start
           /\ UsedStart(a) < UsedEnd(a)
           /\ UsedStart(a) <= HeaderAt(a)
           /\ a.ptr + a.layout.size <= UsedEnd(a)
           /\ IF i = 1 THEN UsedStart(a) = heap_first(heap)
              ELSE UsedStart(a) = UsedEnd(heap.allocs[i - 1])

\* Allocations of 1, PAGE_SIZE and 1 bytes with alignment 16.
C30_Witness ==
    /\ Len(heap.allocs) = 3
    /\ heap.allocs[1].layout = [size |-> 1, align |-> 16]
    /\ heap.allocs[2].layout = [size |-> PAGE_SIZE, align |-> 16]
    /\ heap.allocs[3].layout = [size |-> 1, align |-> 16]
    /\ HeaderAt(heap.allocs[2]) > heap.allocs[2].block.start

\* The free list the last alloc found, and the end of its head block.
FoundEmpty == heap.last.pre_head = 0
FoundSized ==
    /\ heap.last.pre_head + 2 * size_of_usize \in DOMAIN heap.last.pre_words
    /\ heap.last.pre_words[heap.last.pre_head + 2 * size_of_usize][1] = "size"
FoundEnd ==
    heap.last.pre_head
        + heap.last.pre_words[heap.last.pre_head + 2 * size_of_usize][2]

\* Bytes [p, p + size) with p the first address aligned to align that
\* leaves room for an AllocHeader do not fit in the head block.
TooBig(layout) ==
    LET p == ((heap.last.pre_head + ALLOC_HEADER_SIZE + layout.align - 1)
                \div layout.align) * layout.align
    IN p + layout.size > FoundEnd

NoRoom == FoundEmpty \/ (FoundSized /\ TooBig(heap.last.layout))

\* C31: KernelHeap::alloc fails by returning a null pointer, without
\* panicking and without changing heap state, whenever no free block can
\* hold the request, including every call made after an earlier allocation
\* consumed the last free block entirely (free list empty).
C31_NullWhenNoRoom ==
    (heap.last.op = "alloc" /\ NoRoom) =>
        /\ heap.panic = NoPanic
        /\ heap.ret = 0
        /\ heap.free_head = heap.last.pre_head
        /\ heap.words = heap.last.pre_words

(***************************************************************************)
(* Claims about the PICs and the interrupt table                           *)
(***************************************************************************)

\* C24: after initialize_pic exactly IRQ0 and IRQ1 are unmasked: bits 0 and
\* 1 of the master's mask register are clear, every other bit of it and
\* every bit of the slave's mask register is set, whatever the masks were
\* before.
C24_OnlyTimerAndKeyboard ==
    pic.done =>
        \A i \in 0 .. NUM_INTERRUPTS - 1 :
            /\ bit(pic.master.imr, i) =
                    (IF i \in {TIMER_INTERRUPT, KEYBOARD_INTERRUPT}
                     THEN 0 ELSE 1)
            /\ bit(pic.slave.imr, i) = 1

\* The positions of the EOI commands to a command port among the port writes
\* of the call.
EoiWrites(port) ==
    {k \in 1 .. Len(pic.writes) : pic.writes[k] = <<port, CMD_EOI>>}

\* C25: signal_eoi(n) writes the EOI command to the master's command port
\* exactly once; it writes it to the slave's command port, once and before
\* the master's, if and only if n >= 8; it writes nothing else.
C25_EoiDiscipline ==
    (pic.last.op = "signal_eoi") =>
        /\ Cardinality(EoiWrites(MASTER_PORT)) = 1
        /\ Cardinality(EoiWrites(SLAVE_PORT)) =
                (IF pic.last.irq >= 8 THEN 1 ELSE 0)
        /\ \A s \in EoiWrites(SLAVE_PORT), m \in EoiWrites(MASTER_PORT) :
                s < m
        /\ Len(pic.writes) = Cardinality(EoiWrites(MASTER_PORT))
                                + Cardinality(EoiWrites(SLAVE_PORT))

\* The EOI of a line of the slave that was in service: both chips have no
\* line in service afterwards.
C25_Witness ==
    /\ pic.last.op = "signal_eoi"
    /\ pic.last.irq >= 8
    /\ pic.last.pre_slave.isr = 2 ^ (pic.last.irq - NUM_INTERRUPTS)
    /\ pic.slave.isr = 0
    /\ pic.master.isr = 0

\* The entry of a slot is a present interrupt gate for the handler.
GateFor(entry, handler) ==
    /\ entry.present
    /\ entry.gate_type = GateType_Interrupt
    /\ entry.offset_high * (2 ^ 16) + entry.offset_low = handler

\* C26: the limit Idt::activate loads covers 256 entries of 16 bytes;
\* add_user_defined_handler(v, h) succeeds for every v in [32, 255] and
\* stores a present interrupt gate for h in slot v (byte offset 16 * v); for
\* v < 32 it is rejected and the table stays as it was.
C26_IdtVectors ==
    /\ idt.idtr.loaded => idt.idtr.limit = 256 * LENGTH_BYTES - 1
    /\ (idt.last.op = "add_user_defined_handler") =>
        /\ idt.last.index \in 32 .. 255 =>
            /\ idt.panic = NoPanic
            /\ GateFor(idt.table[idt.last.index], idt.last.handler)
        /\ idt.last.index < 32 =>
            /\ idt.panic # NoPanic
            /\ idt.table = idt.last.pre_table

\* The port writes of the call that go to a port of a PIC.
IsPicWrite(w) == w[1] # WAIT_PORT
PicWrites == SelectSeq(pic.writes, IsPicWrite)

\* C32: Pic::initialize writes ICW1 (0x11) to the command port, then ICW2
\* (32 for the master, 40 for the slave), ICW3 (4 for the master, 2 for the
\* slave), ICW4 (1) and the saved mask to the data port, with no other
\* write to the PIC's ports in between; the master at 0x20/0x21 is
\* initialised completely before the slave at 0xA0/0xA1.
C32_InitSequence ==
    (pic.last.op = "initialize_pic") =>
        /\ Len(PicWrites) >= 10
        /\ SubSeq(PicWrites, 1, 5) =
            <<(<<32, 17>>), (<<33, 32>>), (<<33, 4>>), (<<33, 1>>),
              (<<33, pic.initial.master>>)>>
        /\ SubSeq(PicWrites, 6, 10) =
            <<(<<160, 17>>), (<<161, 40>>), (<<161, 2>>), (<<161, 1>>),
              (<<161, pic.initial.slave>>)>>

C32_Witness ==
    /\ pic.last.op = "initialize_pic"
    /\ pic.initial = [master |-> 184, slave |-> 143]
    /\ Len(pic.writes) > 10
    /\ pic.writes[9] = <<33, 184>>
    /\ pic.master.offset = 32
    /\ pic.slave.offset = 40

\* The vector a chip programmed with ICW2 raises for a line: the offset
\* it was given plus the number of the line on the chip.
RaisedVector(irq) ==
    IF irq < 8 THEN pic.master.offset + irq
    ELSE pic.slave.offset + (irq - 8)

\* C33: for every IRQ n in 0..15, get_idt_offset(n) = 32 + n, which is the
\* vector the PICs were programmed through ICW2 to raise for that line;
\* initialize_pic installs the timer handler at IDT slot 32 and the
\* keyboard handler at IDT slot 33.
C33_VectorOfIrq ==
    /\ (pic.last.op = "get_idt_offset") =>
        /\ pic.last.ret = 32 + pic.last.irq
        /\ pic.last.ret = RaisedVector(pic.last.irq)
    /\ (pic # <<>> /\ pic.done) =>
        /\ idt.panic = NoPanic
        /\ GateFor(idt.table[32], TimerHandlerAddr)
        /\ GateFor(idt.table[33], KeyboardHandlerAddr)

C33_Witness ==
    /\ pic.last.op = "get_idt_offset"
    /\ pic.last.irq = 15
    /\ pic.last.ret = 47
    /\ pic.slave.offset = 40
    /\ idt.table[32].present

(***************************************************************************)
(* Claims about VirtAddr::new                                              *)
(***************************************************************************)

\* v >> 47 of an address given by its limbs.
TopSeventeen(l) == l[1] * 2 + (l[2] \div (LimbBase \div 2))

CanonicalLimbs(l) == TopSeventeen(l) \in {0, 2 ^ 17 - 1}

\* C27: VirtAddr::new(v) succeeds exactly when bits 63..48 of v all equal
\* bit 47 (v >> 47 is 0x0 or 0x1FFFF) and panics otherwise; on success
\* as_u64() returns v unchanged.  0x0000_7FFF_FFFF_FFFF and
\* 0xFFFF_8000_0000_0000 are accepted, 0x0000_8000_0000_0000 is rejected.
C27_CanonicalExactly ==
    /\ (probe # <<>> /\ probe.op = "new") =>
        /\ (probe.ret.panic = NoPanic) <=> CanonicalLimbs(probe.arg)
        /\ probe.arg \in {<<0, 32767, 65535, 65535>>, <<65535, 32768, 0, 0>>}
            => probe.ret.panic = NoPanic
        /\ probe.arg = <<0, 32768, 0, 0>> => probe.ret.panic # NoPanic
    /\ (probe # <<>> /\ probe.op = "as_u64") =>
        /\ CanonicalLimbs(probe.arg)
        /\ probe.ret.value = probe.arg

C27_Witness ==
    /\ probe # <<>>
    /\ probe.op = "as_u64"
    /\ probe.arg = <<65535, 32768, 0, 4096>>
    /\ probe.ret.value = probe.arg

\* Bits hi..lo of an address given by its limbs, for fields of nine bits
\* that lie in one limb or across two neighbouring ones.
Bits47to39(l) == l[2] \div 128
Bits38to30(l) == (l[2] % 128) * 4 + (l[3] \div 16384)
Bits29to21(l) == (l[3] \div 32) % 512
Bits20to12(l) == (l[3] % 32) * 16 + (l[4] \div 4096)

\* C34: for every canonical virtual address v, get_page_map_l4_idx,
\* get_page_dir_ptr_idx, get_page_dir_idx and get_page_table_idx return
\* bits 47..39, 38..30, 29..21 and 20..12 of v, each in 0..511; for
\* v = 0xFFFF_8000_0000_0000 the PML4 index is 256 and the others are 0.
C34_PageIndices ==
    (probe # <<>> /\ probe.op = "indices") =>
        /\ probe.ret.value.l4 = Bits47to39(probe.arg)
        /\ probe.ret.value.pdp = Bits38to30(probe.arg)
        /\ probe.ret.value.pd = Bits29to21(probe.arg)
        /\ probe.ret.value.pt = Bits20to12(probe.arg)
        /\ \A f \in {"l4", "pdp", "pd", "pt"} :
                probe.ret.value[f] \in 0 .. 511
        /\ probe.arg = <<65535, 32768, 0, 0>> =>
                probe.ret.value = [l4 |-> 256, pdp |-> 0, pd |-> 0, pt |-> 0]

C34_Witness ==
    /\ probe # <<>>
    /\ probe.op = "indices"
    /\ probe.arg = <<65535, 33059, 43981, 22136>>
    /\ probe.ret.value = [l4 |-> 258, pdp |-> 142, pd |-> 350, pt |-> 213]

(***************************************************************************)
(* Claims about align_down, align_up and is_aligned                        *)
(***************************************************************************)

\* The alignment is 2^k in limb j.
PowerAt(al, j, k) == al = [i \in 1 .. 4 |-> IF i = j THEN 2 ^ k ELSE 0]
PowerOfTwo(al) == \E j \in 1 .. 4, k \in 0 .. LimbBits - 1 : PowerAt(al, j, k)
PowerLimb(al) == CHOOSE j \in 1 .. 4 : al[j] # 0
PowerBit(al) ==
    CHOOSE k \in 0 .. LimbBits - 1 : PowerAt(al, PowerLimb(al), k)

\* a is a multiple of the power of two al, and the largest multiple of al
\* that is not above a.
MultipleOf(a, al) ==
    /\ \A i \in PowerLimb(al) + 1 .. 4 : a[i] = 0
    /\ a[PowerLimb(al)] % al[PowerLimb(al)] = 0
MultipleBelow(a, al) ==
    [i \in 1 .. 4 |->
        IF i < PowerLimb(al) THEN a[i]
        ELSE IF i = PowerLimb(al) THEN a[i] - (a[i] % al[i])
        ELSE 0]

\* x + al for a multiple x of the power of two al: the limbs of the sum
\* and whether it is 2^64 or more.
RECURSIVE CarryInto(_, _, _)
CarryInto(x, al, i) ==
    IF i > PowerLimb(al) THEN FALSE
    ELSE IF i = PowerLimb(al) THEN x[i] + al[i] = LimbBase
    ELSE CarryInto(x, al, i + 1) /\ x[i] = LimbBase - 1
SumLimbs(x, al) ==
    [i \in 1 .. 4 |->
        IF i > PowerLimb(al) THEN x[i]
        ELSE IF i = PowerLimb(al) THEN (x[i] + al[i]) % LimbBase
        ELSE IF CarryInto(x, al, i + 1) THEN (x[i] + 1) % LimbBase
        ELSE x[i]]
SumFits(x, al) == ~CarryInto(x, al, 1)

\* The smallest multiple of al that is not below a is below 2^64, and r
\* is that multiple.
SmallestMultipleAbove(r, a, al) ==
    IF MultipleOf(a, al) THEN r = a
    ELSE /\ SumFits(MultipleBelow(a, al), al)
         /\ r = SumLimbs(MultipleBelow(a, al), al)

\* C35: for every address a and power-of-two alignment A, align_up(a, A)
\* is the smallest multiple of A that is >= a: a itself when a is aligned,
\* align_down(a, A) + A otherwise; hence align_up(align_down(p, A), A) -
\* align_down(p, A) is 0 or A.  A non-power-of-two A panics.
C35_AlignUp ==
    /\ (probe # <<>> /\ probe.op = "align_up") =>
        IF PowerOfTwo(probe.align)
        THEN /\ probe.ret.panic = NoPanic
             /\ SmallestMultipleAbove(probe.ret.value, probe.addr,
                                      probe.align)
             /\ probe.down.value = MultipleBelow(probe.addr, probe.align)
             /\ probe.up_of_down.panic = NoPanic
             /\ probe.up_of_down.value = probe.down.value
        ELSE probe.ret.panic # NoPanic
    /\ (probe # <<>> /\ probe.op \in {"align_down", "is_aligned"}) =>
        (probe.ret.panic # NoPanic <=> ~PowerOfTwo(probe.align))

(***************************************************************************)
(* Claims about the free list                                              *)
(***************************************************************************)

\* The start of the block resize_block left in the list.
NewStart == heap.last.block.start + heap.last.len

\* A word of memory holds the field with the value.
Holds(a, field, v) ==
    a \in DOMAIN heap.mem /\ heap.mem[a] = [field |-> field, value |-> v]

\* The bytes of the Entry at NewStart lie inside the block.
EntryFits == NewStart + FREELIST_ENTRY_SIZE <= heap.last.block.end

\* C40: after resize_block(block, len) returned, the Entry of the shrunken
\* block sits at block.start + len, aligned for Entry, with size = old size
\* - len and room for a whole Entry, and with the prev and next of the old
\* block; the predecessor's next, the successor's prev and the head (when
\* block was the head) point to it; and the block returned is
\* [block.start, block.start + len) and overlaps no byte of the free block.
C40_ResizeWellFormed ==
    (heap.last.op = "resize_block" /\ heap.panic = NoPanic) =>
        /\ is_aligned_us(NewStart, FREELIST_ENTRY_ALIGN)
        /\ Holds(prev_at(NewStart), "prev", heap.last.old.prev)
        /\ Holds(next_at(NewStart), "next", heap.last.old.next)
        /\ Holds(size_at(NewStart), "size",
                 (heap.last.block.end - heap.last.block.start) - heap.last.len)
        /\ EntryFits
        /\ heap.last.old.prev # 0 =>
                Holds(next_at(heap.last.old.prev), "next", NewStart)
        /\ heap.last.old.next # 0 =>
                Holds(prev_at(heap.last.old.next), "prev", NewStart)
        /\ heap.last.pre_head = heap.last.block.start => heap.head = NewStart
        /\ heap.ret = [start |-> heap.last.block.start, end |-> NewStart]
        /\ heap.ret.end <= heap.head

====
